---- MODULE Spec2Model ----
(***************************************************************************)
(* Model of forgesetup.py: the declarative, OS-aware step runner.          *)
(*                                                                         *)
(* Python strings are sequences of one-character strings, so that the      *)
(* regular expressions of the source (VAR_PATTERNS, the `when` pattern)    *)
(* and str.strip / str.split are computed character by character.          *)
(* An optional value (a missing dict key, None) is the empty tuple None    *)
(* and a present value v is the one-element tuple Some(v).                 *)
(***************************************************************************)
EXTENDS Integers, Sequences, FiniteSets, TLC

(***************************************************************************)
(* Bounds of the model.                                                    *)
(***************************************************************************)
\* longest common.steps list drawn for a spec
MaxCommon == 2
\* longest os.<key>.steps list drawn for a spec
MaxOsSteps == 1
\* number of substitutions of one pattern after which the model stops
\* following interpolate_string's `while True` loop: a loop that still finds
\* a match then is taken not to end
MaxPasses == 4

(***************************************************************************)
(* Optional values and small helpers.                                      *)
(***************************************************************************)
None == << >>

Some(v) == << v >>

IsSome(o) == o # << >>

\* Python truthiness of an optional string: present and non-empty
Truthy(o) == o # << >> /\ o[1] # << >>

\* d.get(key) or default, for optional strings
GetOr(o, default) == IF Truthy(o) THEN o[1] ELSE default

SubStr(s, a, b) == IF a > b THEN << >> ELSE SubSeq(s, a, b)

\* {**a, **b}: the keys of b override those of a
DictMerge(a, b) == b @@ a

DictGet(d, k, default) == IF k \in DOMAIN d THEN d[k] ELSE default

EmptyDict == << >>

(***************************************************************************)
(* Character classes of Python's re module.                                *)
(***************************************************************************)
Upper == {"A","B","C","D","E","F","G","H","I","J","K","L","M",
          "N","O","P","Q","R","S","T","U","V","W","X","Y","Z"}

Lower == {"a","b","c","d","e","f","g","h","i","j","k","l","m",
          "n","o","p","q","r","s","t","u","v","w","x","y","z"}

Digit == {"0","1","2","3","4","5","6","7","8","9"}

\* [A-Za-z_]
IdentStart == Upper \cup Lower \cup {"_"}

\* [A-Za-z0-9_]
IdentChar == IdentStart \cup Digit

\* \s and the default characters of str.strip()
Space == {" ", "\t", "\n", "\r", "\f"}

\* index of the last character of the longest run of class C starting at i
\* (i - 1 when the run is empty)
RunEnd(s, i, C) ==
    CHOOSE j \in (i - 1)..Len(s) :
        /\ \A k \in i..j : s[k] \in C
        /\ (j = Len(s) \/ s[j + 1] \notin C)

\* str.strip(chars): drop every leading and trailing character of the set C
StripChars(s, C) ==
    LET a == RunEnd(s, 1, C) + 1
    IN  IF a > Len(s) THEN << >>
        ELSE LET b == CHOOSE j \in a..Len(s) :
                          /\ s[j] \notin C
                          /\ \A k \in (j + 1)..Len(s) : s[k] \in C
             IN  SubSeq(s, a, b)

\* `c in s` for a one-character needle
Contains(s, c) == \E i \in 1..Len(s) : s[i] = c

\* index of the first occurrence of c in s (0 when absent)
IndexOf(s, c) ==
    IF Contains(s, c)
    THEN CHOOSE i \in 1..Len(s) : s[i] = c /\ \A k \in 1..(i - 1) : s[k] # c
    ELSE 0

(***************************************************************************)
(* VAR_PATTERNS and interpolate_string.                                    *)
(***************************************************************************)
NoMatch == [ok |-> FALSE, start |-> 0, stop |-> 0, key |-> << >>]

\* r"\{\{\s*([A-Za-z_][A-Za-z0-9_]*)\s*\}\}" anchored at i
MatchBracesAt(s, i) ==
    IF ~(i + 1 <= Len(s) /\ s[i] = "{" /\ s[i + 1] = "{") THEN NoMatch
    ELSE LET idStart == RunEnd(s, i + 2, Space) + 1
         IN  IF ~(idStart <= Len(s) /\ s[idStart] \in IdentStart) THEN NoMatch
             ELSE LET idEnd == RunEnd(s, idStart, IdentChar)
                      close == RunEnd(s, idEnd + 1, Space) + 1
                  IN  IF close + 1 <= Len(s) /\ s[close] = "}" /\ s[close + 1] = "}"
                      THEN [ok |-> TRUE, start |-> i, stop |-> close + 1,
                            key |-> SubSeq(s, idStart, idEnd)]
                      ELSE NoMatch

\* r"\$\{([A-Za-z_][A-Za-z0-9_]*)\}" anchored at i
MatchDollarAt(s, i) ==
    IF ~(i + 2 <= Len(s) /\ s[i] = "$" /\ s[i + 1] = "{" /\ s[i + 2] \in IdentStart)
    THEN NoMatch
    ELSE LET idEnd == RunEnd(s, i + 2, IdentChar)
         IN  IF idEnd + 1 <= Len(s) /\ s[idEnd + 1] = "}"
             THEN [ok |-> TRUE, start |-> i, stop |-> idEnd + 1,
                   key |-> SubSeq(s, i + 2, idEnd)]
             ELSE NoMatch

\* the two compiled patterns, in the order of the list
VAR_PATTERNS == << "braces", "dollar" >>

MatchAt(pat, s, i) == IF pat = "braces" THEN MatchBracesAt(s, i) ELSE MatchDollarAt(s, i)

\* pat.search(out): the leftmost match
Search(pat, s) ==
    IF \E i \in 1..Len(s) : MatchAt(pat, s, i).ok
    THEN MatchAt(pat, s, CHOOSE i \in 1..Len(s) :
                             /\ MatchAt(pat, s, i).ok
                             /\ \A k \in 1..(i - 1) : ~MatchAt(pat, s, k).ok)
    ELSE NoMatch

\* the `while True` loop of interpolate_string for one pattern; fuel bounds
\* the number of substitutions the model follows
RECURSIVE SubstLoop(_, _, _, _)
SubstLoop(pat, out, ctx, fuel) ==
    LET m == Search(pat, out)
    IN  IF ~m.ok \/ fuel = 0 THEN out
        ELSE SubstLoop(pat,
                       SubStr(out, 1, m.start - 1) \o DictGet(ctx, m.key, << >>)
                           \o SubStr(out, m.stop + 1, Len(out)),
                       ctx, fuel - 1)

interpolate_string(s, ctx) ==
    SubstLoop(VAR_PATTERNS[2], SubstLoop(VAR_PATTERNS[1], s, ctx, MaxPasses), ctx, MaxPasses)

\* interpolate_string does not return: one of its `while True` loops still
\* finds a match after MaxPasses substitutions
Hangs(s, ctx) ==
    /\ \E i \in 1..Len(s) : s[i] \in {"{", "$"}
    /\ LET a == SubstLoop(VAR_PATTERNS[1], s, ctx, MaxPasses)
       IN  \/ Search(VAR_PATTERNS[1], a).ok
           \/ Search(VAR_PATTERNS[2], SubstLoop(VAR_PATTERNS[2], a, ctx, MaxPasses)).ok

\* deep_interpolate on a list of strings
InterpSeq(xs, ctx) == [i \in 1..Len(xs) |-> interpolate_string(xs[i], ctx)]

\* deep_interpolate on an optional string (None and non-strings pass through)
InterpOpt(o, ctx) == IF IsSome(o) THEN Some(interpolate_string(o[1], ctx)) ELSE None

\* deep_interpolate on a mapping with string values (keys are not interpolated)
InterpDict(d, ctx) == [k \in DOMAIN d |-> interpolate_string(d[k], ctx)]

(***************************************************************************)
(* The `when` guard of run_spec.                                           *)
(***************************************************************************)
NoWhen == [ok |-> FALSE, k |-> << >>, op |-> "", val |-> << >>]

AllSpace(s, a, b) == \A i \in a..b : s[i] \in Space

\* re.match(r"^\s*([A-Za-z_][A-Za-z0-9_]*)\s*(==|!=)\s*(.+?)\s*$", when):
\* the greedy \s* after the operator takes the longest feasible run, the lazy
\* (.+?) the shortest feasible one; `.` does not match a newline
WhenMatch(w) ==
    LET idStart == RunEnd(w, 1, Space) + 1
    IN  IF ~(idStart <= Len(w) /\ w[idStart] \in IdentStart) THEN NoWhen
        ELSE
        LET idEnd == RunEnd(w, idStart, IdentChar)
            opStart == RunEnd(w, idEnd + 1, Space) + 1
        IN  IF ~(opStart + 1 <= Len(w) /\ w[opStart] \in {"=", "!"} /\ w[opStart + 1] = "=")
            THEN NoWhen
            ELSE
            LET r == opStart + 2
                Feasible(a, b) == /\ AllSpace(w, r, a)
                                  /\ a + 1 <= b
                                  /\ \A i \in (a + 1)..b : w[i] # "\n"
                                  /\ AllSpace(w, b + 1, Len(w))
                Starts == {a \in (r - 1)..Len(w) : \E b \in (a + 1)..Len(w) : Feasible(a, b)}
            IN  IF Starts = {} THEN NoWhen
                ELSE
                LET a == CHOOSE x \in Starts : \A y \in Starts : y <= x
                    Ends == {b \in (a + 1)..Len(w) : Feasible(a, b)}
                    b == CHOOSE x \in Ends : \A y \in Ends : x <= y
                IN  [ok |-> TRUE, k |-> SubSeq(w, idStart, idEnd),
                     op |-> IF w[opStart] = "=" THEN "==" ELSE "!=",
                     val |-> SubSeq(w, a + 1, b)]

\* m.group(3).strip().strip('"').strip("'")
WhenValue(raw) == StripChars(StripChars(StripChars(raw, Space), {"\""}), {"'"})

\* cond_ok of run_spec for a truthy `when`
CondOk(when, step_ctx) ==
    LET m == WhenMatch(when)
    IN  IF m.ok
        THEN LET actual == DictGet(step_ctx, m.k, << >>)
                 val == WhenValue(m.val)
             IN  IF m.op = "==" THEN actual = val ELSE actual # val
        ELSE FALSE

(***************************************************************************)
(* parse_overrides and merge_envs.                                         *)
(***************************************************************************)
RECURSIVE parse_overrides(_)
parse_overrides(kv_list) ==
    IF kv_list = << >> THEN EmptyDict
    ELSE LET n == Len(kv_list)
             kv == kv_list[n]
             before == parse_overrides(SubStr(kv_list, 1, n - 1))
             eq == IndexOf(kv, "=")
         IN  IF eq = 0 THEN before
             ELSE DictMerge(before,
                            StripChars(SubStr(kv, 1, eq - 1), Space)
                                :> StripChars(SubStr(kv, eq + 1, Len(kv)), Space))

\* a slip of the merge: a name keeps the value of the first map defining it
RECURSIVE merge_envs_first_wins(_)
merge_envs_first_wins(maps) ==
    IF maps = << >> THEN EmptyDict
    ELSE DictMerge(maps[Len(maps)], merge_envs_first_wins(SubStr(maps, 1, Len(maps) - 1)))

RECURSIVE merge_envs(_)
merge_envs(maps) ==
    IF maps = << >> THEN EmptyDict
    ELSE DictMerge(merge_envs(SubStr(maps, 1, Len(maps) - 1)), maps[Len(maps)])

(***************************************************************************)
(* Paths: Path.expanduser, Path.parent, the `/` operator.                  *)
(***************************************************************************)
\* Path(p).expanduser(): a leading "~" component becomes the home directory
ExpandUser(p, home) ==
    IF Len(p) >= 1 /\ p[1] = "~" /\ (Len(p) = 1 \/ p[2] = "/")
    THEN home \o SubStr(p, 2, Len(p))
    ELSE p

\* dest_path / name
PathJoin(d, n) == d \o << "/" >> \o n

\* every ancestor directory of p, as mkdir(parents=True) creates them
Ancestors(p) == {SubSeq(p, 1, i - 1) : i \in {j \in 2..Len(p) : p[j] = "/"}}

\* Path(url.rstrip("/").split("/")[-1]).stem: the last path segment with its
\* last suffix (the text from the last dot on) removed
StemOfUrl(url) ==
    LET u == IF \A i \in 1..Len(url) : url[i] = "/" THEN << >>
             ELSE SubSeq(url, 1, CHOOSE j \in 1..Len(url) :
                                     url[j] # "/" /\ \A k \in (j + 1)..Len(url) : url[k] = "/")
        slashes == {i \in 1..Len(u) : u[i] = "/"}
        lastSlash == IF slashes = {} THEN 0 ELSE CHOOSE i \in slashes : \A j \in slashes : j <= i
        seg == SubStr(u, lastSlash + 1, Len(u))
        dots == {i \in 1..Len(seg) : seg[i] = "."}
        lastDot == IF dots = {} THEN 0 ELSE CHOOSE i \in dots : \A j \in dots : j <= i
    IN  IF 1 < lastDot /\ lastDot < Len(seg) THEN SubSeq(seg, 1, lastDot - 1) ELSE seg

(***************************************************************************)
(* resolve_repo_url.                                                       *)
(***************************************************************************)
\* "https://github.com/"
GitHub == << "h","t","t","p","s",":","/","/","g","i","t","h","u","b",".","c","o","m","/" >>

DotGit == << ".", "g", "i", "t" >>

Resolved(url) == [ok |-> TRUE, url |-> url, err |-> ""]

\* the ValueError raised, by its message
Unresolved(err) == [ok |-> FALSE, url |-> << >>, err |-> err]

\* a slip of the precedence: default_org is preferred to the entry's org
resolve_repo_url_default_first(entry, default_org) ==
    IF Truthy(entry.url) THEN Resolved(entry.url[1])
    ELSE IF ~Truthy(entry.name) THEN Unresolved("repo entry must contain 'url' or 'name'")
    ELSE LET name == entry.name[1]
             org == IF Truthy(default_org) THEN default_org ELSE entry.org
         IN  IF ~Truthy(org)
             THEN IF Contains(name, "/")
                  THEN Resolved(GitHub \o name \o DotGit)
                  ELSE Unresolved("No org provided and default_org not set")
             ELSE Resolved(GitHub \o org[1] \o << "/" >> \o name \o DotGit)

\* a slip of the checks: the name is not required
resolve_repo_url_name_unchecked(entry, default_org) ==
    IF Truthy(entry.url) THEN Resolved(entry.url[1])
    ELSE LET name == GetOr(entry.name, << >>)
             org == IF Truthy(entry.org) THEN entry.org ELSE default_org
         IN  IF ~Truthy(org)
             THEN IF Contains(name, "/")
                  THEN Resolved(GitHub \o name \o DotGit)
                  ELSE Unresolved("No org provided and default_org not set")
             ELSE Resolved(GitHub \o org[1] \o << "/" >> \o name \o DotGit)

\* the result is the URL returned or the ValueError raised
resolve_repo_url(entry, default_org) ==
    IF Truthy(entry.url) THEN Resolved(entry.url[1])
    ELSE IF ~Truthy(entry.name) THEN Unresolved("repo entry must contain 'url' or 'name'")
    ELSE LET name == entry.name[1]
             org == IF Truthy(entry.org) THEN entry.org ELSE default_org
         IN  IF ~Truthy(org)
             THEN IF Contains(name, "/")
                  THEN Resolved(GitHub \o name \o DotGit)
                  ELSE Unresolved("No org provided and default_org not set")
             ELSE Resolved(GitHub \o org[1] \o << "/" >> \o name \o DotGit)

(***************************************************************************)
(* String literals of the source and of the specs drawn below.             *)
(***************************************************************************)
s_OS == << "O", "S" >>

s_windows == << "w", "i", "n", "d", "o", "w", "s" >>

s_ubuntu == << "u", "b", "u", "n", "t", "u" >>

s_common == << "c", "o", "m", "m", "o", "n" >>

s_HOME == << "H", "O", "M", "E" >>

s_FORGE_OS == << "F", "O", "R", "G", "E", "_", "O", "S" >>

s_DEFAULT_ORG == << "D", "E", "F", "A", "U", "L", "T", "_", "O", "R", "G" >>

s_WORKSPACE_ROOT == << "W", "O", "R", "K", "S", "P", "A", "C", "E", "_", "R", "O", "O", "T" >>

s_WORKSPACE_ROOT_WIN == << "W", "O", "R", "K", "S", "P", "A", "C", "E", "_", "R", "O", "O", "T", "_", "W", "I", "N" >>

s_powershell == << "p", "o", "w", "e", "r", "s", "h", "e", "l", "l" >>

s_bash == << "b", "a", "s", "h" >>

s_step_ == << "s", "t", "e", "p", "-" >>

s_V == << "V" >>

s_W == << "W" >>

\* str(n) for a natural number
RECURSIVE ToStr(_)
ToStr(n) ==
    LET d == << "0","1","2","3","4","5","6","7","8","9" >>
    IN  IF n < 10 THEN << d[n + 1] >> ELSE ToStr(n \div 10) \o << d[(n % 10) + 1] >>

(***************************************************************************)
(* The parsed YAML document.  A step is a mapping; a key the mapping does  *)
(* not carry is None.  src is not a key of the document: it records the    *)
(* list and the position a step was written at.                            *)
(***************************************************************************)
\* run-items: a string, a mapping with `argv` (a list or not), anything else
ShellItem(cmd) == [kind |-> "str", s |-> cmd, argv |-> << >>, argv_is_list |-> TRUE]

ArgvItem(av) == [kind |-> "argv", s |-> << >>, argv |-> av, argv_is_list |-> TRUE]

ArgvNotListItem(v) == [kind |-> "argv", s |-> v, argv |-> << >>, argv_is_list |-> FALSE]

OtherItem(v) == [kind |-> "other", s |-> v, argv |-> << >>, argv_is_list |-> TRUE]

RunList(items) == [islist |-> TRUE, items |-> items]

RunNotAList == [islist |-> FALSE, items |-> << >>]

MkStep(name, when, shell, coe, wf, cr, run) ==
    [src |-> << >>, name |-> name, when |-> when, shell |-> shell, workdir |-> None,
     continue_on_error |-> coe, env |-> EmptyDict,
     write_file |-> wf, clone_repos |-> cr, run |-> run]

\* the step st with the step-local `env` mapping env
WithEnv(st, env) == [st EXCEPT !.env = env]

\* deep_interpolate over the shapes above
InterpItem(it, ctx) ==
    [it EXCEPT !.s = IF it.kind = "str" \/ (it.kind = "argv" /\ ~it.argv_is_list)
                     THEN interpolate_string(it.s, ctx) ELSE it.s,
               !.argv = InterpSeq(it.argv, ctx)]

InterpItems(items, ctx) == [i \in 1..Len(items) |-> InterpItem(items[i], ctx)]

InterpEntry(e, ctx) ==
    [name |-> InterpOpt(e.name, ctx), url |-> InterpOpt(e.url, ctx),
     org |-> InterpOpt(e.org, ctx), post_install |-> InterpItems(e.post_install, ctx)]

InterpWriteFile(wf, ctx) ==
    [path |-> InterpOpt(wf.path, ctx), content |-> interpolate_string(wf.content, ctx),
     mode |-> InterpOpt(wf.mode, ctx), append |-> wf.append]

InterpCloneRepos(cr, ctx) ==
    [dest_unix |-> InterpOpt(cr.dest_unix, ctx), dest_windows |-> InterpOpt(cr.dest_windows, ctx),
     default_org |-> InterpOpt(cr.default_org, ctx),
     repos |-> [i \in 1..Len(cr.repos) |-> InterpEntry(cr.repos[i], ctx)]]

deep_interpolate(st, ctx) ==
    [src |-> st.src,
     name |-> InterpOpt(st.name, ctx),
     when |-> InterpOpt(st.when, ctx),
     shell |-> InterpOpt(st.shell, ctx),
     workdir |-> InterpOpt(st.workdir, ctx),
     continue_on_error |-> st.continue_on_error,
     env |-> InterpDict(st.env, ctx),
     write_file |-> IF IsSome(st.write_file)
                    THEN Some(InterpWriteFile(st.write_file[1], ctx)) ELSE None,
     clone_repos |-> IF IsSome(st.clone_repos)
                     THEN Some(InterpCloneRepos(st.clone_repos[1], ctx)) ELSE None,
     run |-> IF IsSome(st.run)
             THEN Some([islist |-> st.run[1].islist, items |-> InterpItems(st.run[1].items, ctx)])
             ELSE None]

\* the strings deep_interpolate visits in a step
OptStrings(o) == IF IsSome(o) THEN {o[1]} ELSE {}

ItemStrings(items) ==
    UNION {(IF items[i].kind = "str" \/ (items[i].kind = "argv" /\ ~items[i].argv_is_list)
            THEN {items[i].s} ELSE {})
               \cup {items[i].argv[j] : j \in 1..Len(items[i].argv)} : i \in 1..Len(items)}

StepStrings(st) ==
    OptStrings(st.name) \cup OptStrings(st.when) \cup OptStrings(st.shell)
        \cup OptStrings(st.workdir) \cup {st.env[k] : k \in DOMAIN st.env}
        \cup (IF IsSome(st.write_file)
              THEN OptStrings(st.write_file[1].path) \cup {st.write_file[1].content}
                       \cup OptStrings(st.write_file[1].mode)
              ELSE {})
        \cup (IF IsSome(st.clone_repos)
              THEN LET cr == st.clone_repos[1]
                   IN  OptStrings(cr.dest_unix) \cup OptStrings(cr.dest_windows)
                           \cup OptStrings(cr.default_org)
                           \cup UNION {OptStrings(cr.repos[i].name) \cup OptStrings(cr.repos[i].url)
                                           \cup OptStrings(cr.repos[i].org)
                                           \cup ItemStrings(cr.repos[i].post_install) :
                                       i \in 1..Len(cr.repos)}
              ELSE {})
        \cup (IF IsSome(st.run) THEN ItemStrings(st.run[1].items) ELSE {})

\* deep_interpolate does not return
DeepHangs(st, ctx) == \E v \in StepStrings(st) : Hangs(v, ctx)

(***************************************************************************)
(* The specs, environments and file systems the runs are drawn from.       *)
(***************************************************************************)
\* `when` strings
W_win == << "O", "S", "=", "=", "w", "i", "n", "d", "o", "w", "s" >>

W_notwin == << "O", "S", " ", "!", "=", " ", "'", "w", "i", "n", "d", "o", "w", "s", "'" >>

\* a single `=`: not a comparison
W_bad == << "O", "S", "=", "w", "i", "n", "d", "o", "w", "s" >>

\* names no variable: interpolates to the empty string
W_flag == << "{", "{", "F", "L", "A", "G", "}", "}" >>

HomeDir == << "/", "h" >>

WsRoot == << "~", "/", "w" >>

Repos ==
    << [name |-> Some(<< "r", "1" >>), url |-> None, org |-> None,
        post_install |-> << ShellItem(<< "p", "1" >>), ArgvItem(<< << "q", "1" >> >>) >>],
       [name |-> Some(<< "r", "2" >>), url |-> None, org |-> None,
        post_install |-> << ShellItem(<< "p", "2" >>) >>] >>

\* the second entry has neither url nor name
ReposBad ==
    << [name |-> Some(<< "r", "3" >>), url |-> None, org |-> None, post_install |-> << >>],
       [name |-> None, url |-> None, org |-> None, post_install |-> << >>] >>

CloneBlock(du, dw, repos) ==
    Some([dest_unix |-> du, dest_windows |-> dw, default_org |-> None, repos |-> repos])

WriteBlock(path, content, append) ==
    Some([path |-> path, content |-> content, mode |-> None, append |-> append])

RunA == MkStep(None, None, None, FALSE, None, None,
               Some(RunList(<< ShellItem(<< "a", "1" >>), ArgvItem(<< << "a", "2" >> >>), ShellItem(<< "a", "3" >>) >>)))

RunB == MkStep(Some(<< "B" >>), Some(W_notwin), Some(s_powershell), TRUE, None, None,
               Some(RunList(<< ArgvItem(<< << "b", "1" >>, << "{", "{", "F", "O", "O", "}", "}" >> >>), ShellItem(<< "b", "2" >>) >>)))

RunC == MkStep(None, Some(W_flag), None, TRUE, None, None,
               Some(RunList(<< ShellItem(<< "c", "1" >>), OtherItem(<< "4", "2" >>), ShellItem(<< "c", "3" >>) >>)))

RunD == MkStep(None, None, None, FALSE, None, None, Some(RunNotAList))

WriteA == MkStep(None, None, None, FALSE, WriteBlock(Some(<< "~", "/", "w", "/", "f" >>), << "x" >>, TRUE), None, None)

WriteB == MkStep(None, Some(W_bad), None, FALSE, WriteBlock(Some(<< "~", "/", "g" >>), << "y" >>, FALSE), None, None)

WriteC == MkStep(None, None, None, TRUE, WriteBlock(None, << "z" >>, FALSE), None, None)

CloneA == WithEnv(MkStep(None, None, None, TRUE, None,
                         CloneBlock(Some(WsRoot), Some(WsRoot), Repos), None),
                  s_V :> << "s" >>)

CloneB == MkStep(None, Some(W_win), None, FALSE, None, CloneBlock(None, Some(WsRoot), Repos), None)

CloneC == MkStep(None, None, None, TRUE, None, CloneBlock(Some(WsRoot), None, ReposBad), None)

NoOpStep == MkStep(None, None, None, FALSE, None, None, None)

StepLib == {RunA, RunB, RunC, RunD, WriteA, WriteB, WriteC, CloneA, CloneB, CloneC, NoOpStep}

UbuntuStep == MkStep(None, None, None, FALSE, None, None, Some(RunList(<< ShellItem(<< "u", "1" >>) >>)))

WindowsStep == MkStep(None, None, None, FALSE, None, None, Some(RunList(<< ShellItem(<< "w", "1" >>) >>)))

SeqUpTo(S, n) == UNION {[1..k -> S] : k \in 0..n}

\* the steps of one list, each recording where it was written
Tagged(list, tag) == [i \in 1..Len(list) |-> [list[i] EXCEPT !.src = << tag, i >>]]

Inputs ==
    (s_WORKSPACE_ROOT :> WsRoot) @@ (s_WORKSPACE_ROOT_WIN :> WsRoot)
        @@ (s_DEFAULT_ORG :> << "a", "c", "m", "e" >>) @@ (<< "F", "O", "O" >> :> << "a" >>)

SpecEnv == (<< "E" >> :> << "{", "{", "F", "O", "O", "}", "}" >>)

Specs ==
    {[inputs |-> Inputs,
      env |-> SpecEnv,
      common |-> Tagged(c, s_common),
      os |-> (s_ubuntu :> [steps |-> Tagged([i \in 1..n |-> UbuntuStep], s_ubuntu),
                           env |-> EmptyDict])
                 @@ (s_windows :> [steps |-> Tagged([i \in 1..n |-> WindowsStep], s_windows),
                                   env |-> EmptyDict])] :
        c \in SeqUpTo(StepLib, MaxCommon), n \in 0..MaxOsSteps}

\* what the process finds: the FORGE_OS variable and the key detect_os() returns
\* and the other variables of the inherited process environment
Hosts ==
    {[FORGE_OS |-> None, detected |-> s_ubuntu, environ |-> EmptyDict],
     [FORGE_OS |-> Some(s_windows), detected |-> s_ubuntu, environ |-> EmptyDict]}

\* the directories that exist before the run
InitialDirs ==
    {{HomeDir},
     {HomeDir, HomeDir \o << "/", "w" >>, HomeDir \o << "/", "w", "/", "r", "1" >>}}

(***************************************************************************)
(* Further runs: one family of specs per part of the engine, each varying  *)
(* what that part reads.                                                   *)
(***************************************************************************)
s_FOO == << "F", "O", "O" >>

s_COMBINED == << "C", "O", "M", "B", "I", "N", "E", "D" >>

\* the mapping {k: v} when c holds, the empty mapping otherwise
Opt(c, k, v) == IF c THEN k :> v ELSE EmptyDict

\* "OS == ubuntu" and "OS==windows"
W_ubuntu == << "O", "S", " ", "=", "=", " ", "u", "b", "u", "n", "t", "u" >>

\* the places a user can define a variable named OS
OsSources == {"none", "inputs", "set", "env", "osenv", "proc"}

\* the layers that can define the variable V
EnvLayers == SUBSET {"proc", "env", "osenv", "step"}

EnvG == MkStep(None, Some(W_ubuntu), None, TRUE, None, None,
               Some(RunList(<< ShellItem(<< "g" >>) >>)))

EnvH == MkStep(None, Some(W_win), None, TRUE, None, None,
               Some(RunList(<< ShellItem(<< "h" >>) >>)))

\* a step with a step-local env
EnvE(L) == WithEnv(MkStep(None, None, None, TRUE, None, None,
                          Some(RunList(<< ShellItem(<< "{", "{", "O", "S", "}", "}" >>) >>))),
                   Opt("step" \in L, s_V, << "s" >>))

EnvF == MkStep(None, None, None, TRUE, None, None, Some(RunList(<< ShellItem(<< "f" >>) >>)))

OtherOs(k) == IF k = s_windows THEN s_ubuntu ELSE s_windows

\* inputs.FOO = "a", env.COMBINED = "{{FOO}}"; osrc says where OS is defined
\* by the user, L which layers define V, ov whether --set FOO=b is given, pf
\* whether the process environment defines FOO
EnvRun(k, osrc, L, ov, pf) ==
    [spec |->
        [inputs |-> (s_FOO :> << "a" >>) @@ Opt(osrc = "inputs", s_OS, << "x" >>),
         env |-> (s_COMBINED :> << "{", "{", "F", "O", "O", "}", "}" >>)
                     @@ Opt("env" \in L, s_V, << "g" >>)
                     @@ Opt(osrc = "env", s_OS, << "x" >>),
         common |-> Tagged(<< EnvG, EnvH, EnvE(L), EnvF >>, s_common),
         os |-> (k :> [steps |-> << >>,
                       env |-> Opt("osenv" \in L, s_V, << "o" >>)
                                   @@ Opt(osrc = "osenv", s_OS, << "x" >>)])
                    @@ (OtherOs(k) :> [steps |-> Tagged(<< EnvF >>, OtherOs(k)),
                                       env |-> (s_V :> << "n" >>) @@ (s_W :> << "n" >>)])],
     host |-> [FORGE_OS |-> IF k = s_windows THEN Some(s_windows) ELSE None,
               detected |-> s_ubuntu,
               environ |-> Opt("proc" \in L, s_V, << "p" >>)
                               @@ Opt(osrc = "proc", s_OS, << "x" >>)
                               @@ Opt(pf, s_FOO, << "z" >>)],
     overrides |-> (IF ov THEN << << "F", "O", "O", "=", "b" >> >> ELSE << >>)
                       \o (IF osrc = "set" THEN << << "O", "S", "=", "x" >> >> ELSE << >>)]

EnvRuns ==
    {EnvRun(k, c[1], c[2], ov, pf) :
        k \in {s_ubuntu, s_windows},
        c \in {<< o, {} >> : o \in OsSources} \cup {<< "none", L >> : L \in EnvLayers},
        ov \in BOOLEAN, pf \in BOOLEAN}

\* a spec with one common step, for an ubuntu host
OneStepRun(inputs, st) ==
    [spec |-> [inputs |-> inputs, env |-> EmptyDict,
               common |-> Tagged(<< st >>, s_common),
               os |-> (s_ubuntu :> [steps |-> << >>, env |-> EmptyDict])],
     host |-> [FORGE_OS |-> None, detected |-> s_ubuntu, environ |-> EmptyDict],
     overrides |-> << >>]

\* repo entries: url, name and org each absent, empty or given
EntryShapes ==
    [url : {None, Some(<< >>), Some(<< "h", ":", "/", "u", "/", "k", ".", "g", "i", "t" >>)},
     name : {None, Some(<< "n" >>), Some(<< "o", "/", "n" >>)},
     org : {None, Some(<< >>), Some(<< "g" >>)},
     post_install : {<< >>}]

LastEntry == [name |-> Some(<< "r", "9" >>), url |-> None, org |-> Some(<< "g" >>),
              post_install |-> << >>]

RepoRuns ==
    {OneStepRun(Opt(inp, s_DEFAULT_ORG, << "a", "c", "m", "e" >>),
                MkStep(None, None, None, TRUE, None,
                       Some([dest_unix |-> Some(WsRoot), dest_windows |-> None,
                             default_org |-> d, repos |-> << e, LastEntry >>]),
                       None)) :
        e \in EntryShapes, d \in {None, Some(<< "d" >>)}, inp \in BOOLEAN}

\* templates and the values of the variables A and B they name; Z is defined
\* nowhere
Templates ==
    {<< "{", "{", "A", "}", "}" >>,
     << "$", "{", "A", "}" >>,
     << "{", "{", " ", "A", " ", "}", "}", "-", "$", "{", "B", "}" >>,
     << "$", "{", "A", "}", "{", "{", "B", "}", "}" >>,
     << "q", "{", "{", "Z", "}", "}", "$", "{", "Z", "}" >>}

ValuesOfA == {<< >>, << "x" >>, << "{", "{", "B", "}", "}" >>, << "$", "{", "B", "}" >>}

ValuesOfB == {<< >>, << "y" >>}

InterpRuns ==
    {OneStepRun((<< "A" >> :> a) @@ (<< "B" >> :> b),
                MkStep(None, None, None, TRUE, None, None, Some(RunList(<< ShellItem(t) >>)))) :
        t \in Templates, a \in ValuesOfA, b \in ValuesOfB}

\* three writes to the same path; the appending one sets continue_on_error
WriteSteps ==
    {MkStep(None, None, None, c[2],
            WriteBlock(Some(<< "~", "/", "f" >>), c[1], c[2]), None, None) :
        c \in {<< << "1" >>, FALSE >>, << << "2" >>, TRUE >>, << << "3" >>, FALSE >>}}

\* a run list whose second item is no command, followed by another step
ShapeRuns ==
    {[spec |-> [inputs |-> EmptyDict, env |-> EmptyDict,
                common |-> Tagged(<< MkStep(None, None, None, coe, None, None,
                                            Some(RunList(<< ShellItem(<< "s", "1" >>), x,
                                                            ShellItem(<< "s", "3" >>) >>))),
                                     EnvF >>, s_common),
                os |-> (s_ubuntu :> [steps |-> << >>, env |-> EmptyDict])],
      host |-> [FORGE_OS |-> None, detected |-> s_ubuntu, environ |-> EmptyDict],
      overrides |-> << >>] :
        x \in {ArgvNotListItem(<< "x" >>), OtherItem(<< "4", "2" >>)}, coe \in BOOLEAN}

\* longest list of writes drawn for one path
MaxWrites == 3

WriteRuns ==
    {[spec |-> [inputs |-> EmptyDict, env |-> EmptyDict,
                common |-> Tagged(ws, s_common),
                os |-> (s_ubuntu :> [steps |-> << >>, env |-> EmptyDict])],
      host |-> [FORGE_OS |-> None, detected |-> s_ubuntu, environ |-> EmptyDict],
      overrides |-> << >>] : ws \in SeqUpTo(WriteSteps, MaxWrites) \ {<< >>}}

s_fedora == << "f", "e", "d", "o", "r", "a" >>

\* one step with a string run-item: the `shell` key absent, empty or given,
\* under three OS keys
ShellRuns ==
    {[spec |-> [inputs |-> EmptyDict, env |-> EmptyDict,
                common |-> Tagged(<< MkStep(None, None, sh, TRUE, None, None,
                                            Some(RunList(<< ShellItem(<< "k" >>) >>))) >>,
                                  s_common),
                os |-> (s_ubuntu :> [steps |-> << >>, env |-> EmptyDict])],
      host |-> [FORGE_OS |-> f, detected |-> s_ubuntu, environ |-> EmptyDict],
      overrides |-> << >>] :
        sh \in {None, Some(<< >>), Some(s_powershell), Some(s_bash)},
        f \in {None, Some(s_windows), Some(s_fedora)}}

\* URLs whose last segment has the suffix .git, another suffix, or none
Urls ==
    {<< "h", ":", "/", "u", "/", "k", ".", "g", "i", "t" >>,
     << "h", ":", "/", "u", "/", "k", ".", "j", "s" >>,
     << "h", ":", "/", "u", "/", "k", ".", "j", "s", ".", "g", "i", "t" >>,
     << "h", ":", "/", "u", "/", "k" >>,
     << "h", ":", "/", "u", "/", "k", ".", "g", "i", "t", "/" >>}

DestUnix == << "~", "/", "x" >>
DestWindows == << "~", "/", "y" >>

\* one entry cloned by URL, with and without a name, under both OS keys
UrlRuns ==
    {[spec |-> [inputs |-> EmptyDict, env |-> EmptyDict,
                common |-> Tagged(<< MkStep(None, None, None, FALSE, None,
                                            CloneBlock(Some(DestUnix), Some(DestWindows),
                                                       << [name |-> n, url |-> Some(u), org |-> None,
                                                           post_install |-> << >>] >>),
                                            None) >>,
                                  s_common),
                os |-> (s_ubuntu :> [steps |-> << >>, env |-> EmptyDict])],
      host |-> [FORGE_OS |-> f, detected |-> s_ubuntu, environ |-> EmptyDict],
      overrides |-> << >>] :
        u \in Urls, n \in {None, Some(<< "n" >>)}, f \in {None, Some(s_windows)}}

s_APPDATA == << "A", "P", "P", "D", "A", "T", "A" >>

\* the spec file named on the command line
SpecFile == << "s", ".", "y", "a", "m", "l" >>

\* command lines with and without the positional argument, on a host with and
\* without FORGE_OS=windows
CliRuns ==
    {[spec |-> [inputs |-> EmptyDict, env |-> EmptyDict,
                common |-> Tagged(<< RunA >>, s_common),
                os |-> (s_ubuntu :> [steps |-> << >>, env |-> EmptyDict])],
      host |-> [FORGE_OS |-> f, detected |-> s_ubuntu,
                environ |-> (s_APPDATA :> << "C", ":", "\\", "r" >>)],
      argv_spec |-> a,
      dry_run |-> d] :
        f \in {None, Some(s_windows)}, a \in {None, Some(SpecFile)}, d \in BOOLEAN}

s_A == << "A" >>
s_B == << "B" >>
s_PATH == << "P", "A", "T", "H" >>
T_A == << "{", "{", "A", "}", "}" >>
T_B == << "{", "{", "B", "}", "}" >>

\* contexts whose values name no variable, one another in a chain, or
\* themselves and one another in a cycle
CycleInputs ==
    {s_A :> << "y" >>,
     (s_A :> T_B) @@ (s_B :> << "y" >>),
     s_A :> T_A,
     s_A :> << "$", "{", "A", "}" >>,
     (s_A :> (<< "x" >> \o T_B)) @@ (s_B :> T_A)}

\* spec `env` blocks: a PATH that extends the inherited PATH
CycleEnvs ==
    {EmptyDict, s_PATH :> << "$", "{", "P", "A", "T", "H", "}", ":", "/", "o" >>}

\* a step that names A in a command, in its destination, or not at all
CycleSteps ==
    {MkStep(None, None, None, FALSE, None, None, Some(RunList(<< ShellItem(T_A) >>))),
     MkStep(None, None, None, FALSE, None, None, Some(RunList(<< ShellItem(<< "k" >>) >>))),
     MkStep(None, None, None, FALSE, None,
            CloneBlock(Some(<< "~", "/", "$", "{", "A", "}" >>), None, << >>), None)}

CycleRuns ==
    {[spec |-> [inputs |-> i, env |-> e,
                common |-> Tagged(<< st >>, s_common),
                os |-> (s_ubuntu :> [steps |-> << >>, env |-> EmptyDict])],
      host |-> [FORGE_OS |-> None, detected |-> s_ubuntu,
                environ |-> (s_PATH :> << "/", "b" >>)],
      overrides |-> << >>] :
        i \in CycleInputs, e \in CycleEnvs, st \in CycleSteps}

s_X == << "X" >>
s_Y == << "Y" >>

\* env.X names Y; Y is defined by the process environment, by the OS-specific
\* env, by both or by neither
LayerRuns ==
    {[spec |-> [inputs |-> EmptyDict,
                env |-> (s_X :> t),
                common |-> Tagged(<< MkStep(None, None, None, FALSE, None, None,
                                            Some(RunList(<< ShellItem(<< "k" >>) >>))) >>,
                                  s_common),
                os |-> (s_ubuntu :> [steps |-> << >>, env |-> Opt(o, s_Y, << "l" >>)])],
      host |-> [FORGE_OS |-> None, detected |-> s_ubuntu, environ |-> Opt(e, s_Y, << "e" >>)],
      overrides |-> << >>] :
        t \in {<< "{", "{", "Y", "}", "}" >>, << "a", "$", "{", "Y", "}" >>},
        o \in BOOLEAN, e \in BOOLEAN}

\* a post_install list whose second item is an argv list, an argv that is
\* no list, or no command at all
PostRuns ==
    {OneStepRun(EmptyDict,
                MkStep(None, None, None, coe, None,
                       CloneBlock(Some(WsRoot), None,
                                  << [name |-> None,
                                      url |-> Some(<< "h", ":", "/", "u", "/", "k", ".", "g", "i", "t" >>),
                                      org |-> None,
                                      post_install |-> << ShellItem(<< "p" >>), x,
                                                          ShellItem(<< "q" >>) >>] >>),
                       None)) :
        x \in {ArgvItem(<< << "a" >> >>), ArgvNotListItem(<< "x" >>), OtherItem(<< "4", "2" >>)},
        coe \in BOOLEAN}

\* the value ubuntu bare, in matching quotes, with an unmatched quote, in
\* mixed quotes and in two layers of quotes
QuotedValues ==
    {s_ubuntu,
     << "'" >> \o s_ubuntu \o << "'" >>,
     << "\"" >> \o s_ubuntu \o << "\"" >>,
     << "'" >> \o s_ubuntu,
     << "\"" >> \o s_ubuntu \o << "'" >>,
     << "\"", "'" >> \o s_ubuntu \o << "'", "\"" >>}

\* one guarded step, compared with == and with !=, on an ubuntu host
GuardRuns ==
    {OneStepRun(EmptyDict,
                MkStep(None, Some(<< "O", "S", " " >> \o op \o << " " >> \o v), None, FALSE,
                       None, None, Some(RunList(<< ShellItem(<< "k" >>) >>)))) :
        op \in {<< "=", "=" >>, << "!", "=" >>}, v \in QuotedValues}

\* a step carrying any of the three action blocks, followed by another step
MultiRuns ==
    {[spec |-> [inputs |-> EmptyDict, env |-> EmptyDict,
                common |-> Tagged(<< MkStep(None, None, None, FALSE,
                                            IF w THEN WriteBlock(Some(<< "~", "/", "f" >>), << "1" >>, FALSE)
                                            ELSE None,
                                            IF c THEN CloneBlock(Some(WsRoot), None, Repos) ELSE None,
                                            IF r THEN Some(RunList(<< ShellItem(<< "k" >>) >>)) ELSE None),
                                     EnvF >>, s_common),
                os |-> (s_ubuntu :> [steps |-> << >>, env |-> EmptyDict])],
      host |-> [FORGE_OS |-> None, detected |-> s_ubuntu, environ |-> EmptyDict],
      overrides |-> << >>] :
        w \in BOOLEAN, c \in BOOLEAN, r \in BOOLEAN}

FurtherRuns ==
    EnvRuns \cup RepoRuns \cup InterpRuns \cup WriteRuns \cup ShapeRuns \cup ShellRuns
        \cup UrlRuns \cup CycleRuns \cup LayerRuns \cup PostRuns \cup GuardRuns
        \cup MultiRuns

(***************************************************************************)
(* State of one invocation of run_spec.                                    *)
(***************************************************************************)
VARIABLES
    argv_spec,      \* the positional argument of the command line, if any
    spec_path,      \* the spec_path argument of run_spec, once it is called
    spec_exists,    \* spec_path.exists()
    spec,           \* yaml.safe_load(fh)
    host,           \* FORGE_OS and the result detect_os() would give
    overrides_list, \* the --set arguments
    dry_run,        \* the --dry-run flag
    dirs0,          \* history: the directories that existed when the run began
    dirs,           \* file system: the directories that exist
    files,          \* file system: path -> content of the regular files
    pc,             \* "main", "init", "loop", "step", "run", "clone", "post", "done";
                    \* "hang" when interpolate_string does not return
    os_key,         \* locals of run_spec
    ctx,
    merged_env,
    steps,
    idx,            \* 1-based index of the `for idx, raw_step` loop
    step,           \* the interpolated step of the current iteration
    ent,            \* position in run_items, or in repos
    pit,            \* position in the post_install list of repos[ent]
    out,            \* the lines printed so far
    effects,        \* the calls made to the hooks: processes, clones, file writes
    outcome         \* "running", "ok" (returned), or the exception that left run_spec

argVars == << argv_spec, spec_path, spec_exists, spec, host, overrides_list, dry_run, dirs0 >>

loadVars == << os_key, ctx, merged_env, steps >>

fsVars == << dirs, files >>

vars == << argVars, loadVars, fsVars, pc, idx, step, ent, pit, out, effects, outcome >>

Init ==
    /\ \/ /\ spec_exists = TRUE
          /\ spec \in Specs
          /\ host \in Hosts
          /\ dry_run \in BOOLEAN
          /\ dirs \in (IF dry_run \/ IsSome(host.FORGE_OS) THEN {{HomeDir}} ELSE InitialDirs)
          /\ overrides_list = << >>
          /\ argv_spec = Some(SpecFile) /\ spec_path = Some(SpecFile) /\ pc = "init"
       \/ /\ spec_exists = FALSE
          /\ spec = CHOOSE sp \in Specs : sp.common = << >>
                        /\ \A k \in DOMAIN sp.os : sp.os[k].steps = << >>
          /\ host = CHOOSE h \in Hosts : h.FORGE_OS = None
          /\ dry_run = FALSE
          /\ dirs = {HomeDir}
          /\ overrides_list = << >>
          /\ argv_spec = Some(SpecFile) /\ spec_path = Some(SpecFile) /\ pc = "init"
       \/ \E r \in FurtherRuns :
             /\ spec_exists = TRUE
             /\ spec = r.spec
             /\ host = r.host
             /\ overrides_list = r.overrides
             /\ dry_run \in (IF r \in CycleRuns \cup MultiRuns THEN BOOLEAN ELSE {FALSE})
             /\ dirs = {HomeDir}
             /\ argv_spec = Some(SpecFile) /\ spec_path = Some(SpecFile) /\ pc = "init"
       \/ \E r \in CliRuns :
             /\ spec_exists = TRUE
             /\ spec = r.spec
             /\ host = r.host
             /\ overrides_list = << >>
             /\ dry_run = r.dry_run
             /\ dirs = {HomeDir}
             /\ argv_spec = r.argv_spec /\ spec_path = None /\ pc = "main"
    /\ dirs0 = dirs
    /\ files = EmptyDict
    /\ os_key = << >>
    /\ ctx = EmptyDict
    /\ merged_env = EmptyDict
    /\ steps = << >>
    /\ idx = 0
    /\ step = None
    /\ ent = 0
    /\ pit = 0
    /\ out = << >>
    /\ effects = << >>
    /\ outcome = "running"

(***************************************************************************)
(* main(): the command line.                                               *)
(***************************************************************************)
\* an exception leaves the program
Raise(exc) == pc' = "done" /\ outcome' = exc

\* p.add_argument("spec", ...) is a required positional: parse_args() leaves
\* with SystemExit when it is missing; run_spec(Path(args.spec), ...) otherwise
Main ==
    /\ pc = "main"
    /\ IF argv_spec = None
       THEN /\ Raise("SystemExit")
            /\ UNCHANGED spec_path
       ELSE /\ spec_path' = argv_spec
            /\ pc' = "init"
            /\ UNCHANGED outcome
    /\ UNCHANGED << argv_spec, spec_exists, spec, host, overrides_list, dry_run, dirs0 >>
    /\ UNCHANGED << loadVars, fsVars, idx, step, ent, pit, out, effects >>

(***************************************************************************)
(* Set-up part of run_spec.                                                *)
(***************************************************************************)
\* dict(os.environ)
ProcEnv(h) ==
    IF IsSome(h.FORGE_OS) THEN (s_HOME :> HomeDir) @@ (s_FORGE_OS :> h.FORGE_OS[1]) @@ h.environ
    ELSE (s_HOME :> HomeDir) @@ h.environ

\* os_key = os_override or detect_os()
ResolveOs(h) == IF Truthy(h.FORGE_OS) THEN h.FORGE_OS[1] ELSE h.detected

\* ctx = {**inputs, **overrides}; ctx["OS"] = os_key
BuildCtx(sp, ovl, k) == DictMerge(DictMerge(sp.inputs, parse_overrides(ovl)), s_OS :> k)

\* (spec.get("os", {}) or {}).get(os_key, {})
OsBlock(sp, k) == IF k \in DOMAIN sp.os THEN sp.os[k] ELSE [steps |-> << >>, env |-> EmptyDict]

\* merged_env = merge_envs(dict(os.environ), spec_env, os_env)
MergedRaw(sp, h, k) == merge_envs(<< ProcEnv(h), sp.env, OsBlock(sp, k).env >>)

\* merged_env: the three layers merged, then every value interpolated
BuildEnv(sp, h, c, k) ==
    LET m == MergedRaw(sp, h, k)
    IN  [n \in DOMAIN m |-> interpolate_string(m[n], DictMerge(c, m))]

\* the interpolation of the merged environment does not return
EnvHangs(sp, h, c, k) ==
    LET m == MergedRaw(sp, h, k)
    IN  \E n \in DOMAIN m : Hangs(m[n], DictMerge(c, m))

\* a slip of the concatenation: the OS-specific steps first
StepList_os_first(sp, k) == OsBlock(sp, k).steps \o sp.common

\* steps = common_steps + os_steps
StepList(sp, k) == sp.common \o OsBlock(sp, k).steps

LoadSpec ==
    /\ pc = "init"
    /\ IF ~spec_exists
       THEN /\ pc' = "done"
            /\ outcome' = "SystemExit"
            /\ UNCHANGED << loadVars, idx >>
       ELSE LET k == ResolveOs(host)
                c == BuildCtx(spec, overrides_list, k)
            IN  IF EnvHangs(spec, host, c, k)
                THEN /\ os_key' = k
                     /\ ctx' = c
                     /\ merged_env' = MergedRaw(spec, host, k)
                     /\ pc' = "hang"
                     /\ UNCHANGED << steps, idx, outcome >>
                ELSE /\ os_key' = k
                     /\ ctx' = c
                     /\ merged_env' = BuildEnv(spec, host, c, k)
                     /\ steps' = StepList(spec, k)
                     /\ idx' = 1
                     /\ pc' = "loop"
                     /\ UNCHANGED outcome
    /\ UNCHANGED << argVars, fsVars, step, ent, pit, out, effects >>

(***************************************************************************)
(* The head of the step loop.                                              *)
(***************************************************************************)
step_ctx == DictMerge(ctx, merged_env)

\* name = step.get("name") or f"step-{idx}"
StepName == GetOr(step.name, s_step_ \o ToStr(idx))

default_shell == IF os_key = s_windows THEN s_powershell ELSE s_bash

\* a slip of the lookup: the step's `shell` is not consulted
shell_kind_default_only == default_shell

\* shell_kind = step.get("shell") or default_shell
shell_kind == GetOr(step.shell, default_shell)

cwd == IF Truthy(step.workdir) THEN step.workdir ELSE None

\* a slip of the merge: the `env` of the steps before stays in force
step_env_leaky ==
    merge_envs(<< merged_env >> \o [i \in 1..idx |-> InterpDict(steps[i].env, step_ctx)])

\* step_env = merge_envs(merged_env, step.get("env", {}) or {})
step_env == merge_envs(<< merged_env, step.env >>)

\* a slip of the guard: the step runs whatever cond_ok says
ShouldRun_always(st, sctx) == TRUE

\* a step without a truthy `when` runs; otherwise cond_ok decides
ShouldRun(st, sctx) == IF Truthy(st.when) THEN CondOk(st.when[1], sctx) ELSE TRUE

Line(kind, text) == [kind |-> kind, idx |-> idx, text |-> text]

\* a slip of the banner: a dry run announces its steps as something else
Banner_real_only == Line(IF dry_run THEN "dry_banner" ELSE "banner", StepName)

\* print(f"\n--- [{name}] ---")
Banner == Line("banner", StepName)

Effect(kind, site, cmd, argv, sk, wd, env, path, rc) ==
    [kind |-> kind, site |-> site, idx |-> idx, src |-> steps[idx].src, ent |-> ent, pit |-> pit,
     cmd |-> cmd, argv |-> argv, shell_kind |-> sk, cwd |-> wd, env |-> env,
     path |-> path, rc |-> rc]

\* the head of an iteration: step = deep_interpolate(raw_step, step_ctx)
BeginStep ==
    /\ pc = "loop"
    /\ idx <= Len(steps)
    /\ IF DeepHangs(steps[idx], step_ctx)
       THEN pc' = "hang" /\ UNCHANGED step
       ELSE step' = deep_interpolate(steps[idx], step_ctx) /\ pc' = "step"
    /\ UNCHANGED << argVars, loadVars, fsVars, idx, ent, pit, out, effects, outcome >>

AtStep == pc = "step"

\* a slip of the order of the tests: `run` is looked at first
Dispatch_run_first(st) ==
    IF IsSome(st.run) THEN "run"
    ELSE IF IsSome(st.write_file) THEN "write_file"
    ELSE IF IsSome(st.clone_repos) THEN "clone_repos"
    ELSE "noop"

\* the action block a step is dispatched on: `if "write_file" in step`, then
\* `if "clone_repos" in step`, each ending in `continue`, then step.get("run")
Dispatch(st) ==
    IF IsSome(st.write_file) THEN "write_file"
    ELSE IF IsSome(st.clone_repos) THEN "clone_repos"
    ELSE IF IsSome(st.run) THEN "run"
    ELSE "noop"


\* `continue` of the step loop
NextStep == pc' = "loop" /\ idx' = idx + 1 /\ ent' = 0 /\ pit' = 0

\* print("\nAll steps complete.")
Finish ==
    /\ pc = "loop"
    /\ idx > Len(steps)
    /\ out' = Append(out, [kind |-> "complete", idx |-> idx, text |-> << >>])
    /\ pc' = "done"
    /\ outcome' = "ok"
    /\ UNCHANGED << argVars, loadVars, step, fsVars, idx, ent, pit, effects >>

\* the guard is false: `continue` before anything is printed
StepSkip ==
    /\ AtStep
    /\ ~ShouldRun(step, step_ctx)
    /\ NextStep
    /\ UNCHANGED << argVars, loadVars, step, fsVars, out, effects, outcome >>

(***************************************************************************)
(* write_file.                                                             *)
(***************************************************************************)
\* a slip of the existence test: the target is never seen
Exists_never(p) == FALSE

\* dest.exists()
Exists(p) == p \in dirs \/ p \in DOMAIN files

\* a slip of the test: an existing file is appended to whatever the flag says
WrittenContent_ignores_flag(p, content, append) ==
    IF p \in DOMAIN files THEN files[p] \o content ELSE content

\* the content write_file leaves at p
WrittenContent(p, content, append) ==
    IF append /\ p \in DOMAIN files THEN files[p] \o content ELSE content

\* a slip of the dry-run test: the action is performed in both modes
Performs_always(dry) == TRUE

\* if dry_run: print ... else: write_file(...)
Performs(dry) == ~dry

StepWriteFile ==
    /\ AtStep
    /\ ShouldRun(step, step_ctx)
    /\ Dispatch(step) = "write_file"
    /\ LET wf == step.write_file[1]
       IN  IF ~IsSome(wf.path)
           THEN \* wf["path"] raises KeyError
                /\ out' = Append(out, Banner)
                /\ Raise("KeyError")
                /\ UNCHANGED << fsVars, effects, idx, ent, pit >>
           ELSE IF ~Performs(dry_run)
           THEN /\ out' = out \o << Banner, Line("dry_write", wf.path[1]) >>
                /\ NextStep
                /\ UNCHANGED << fsVars, effects, outcome >>
           ELSE LET p == ExpandUser(wf.path[1], HomeDir)
                IN  \E io_ok \in BOOLEAN :
                      /\ (p \in dirs => ~io_ok)
                      /\ out' = Append(out, Banner)
                      /\ effects' = Append(effects,
                             Effect("write", "write_file", wf.content, << >>, << >>, None,
                                    EmptyDict, p, IF io_ok THEN 0 ELSE 1))
                      /\ IF io_ok
                         THEN /\ dirs' = dirs \cup Ancestors(p)
                              /\ files' = DictMerge(files, p :> WrittenContent(p, wf.content, wf.append))
                              /\ NextStep
                              /\ UNCHANGED outcome
                         ELSE /\ Raise("OSError")
                              /\ UNCHANGED << fsVars, idx, ent, pit >>
    /\ UNCHANGED << argVars, loadVars, step >>

(***************************************************************************)
(* run.                                                                    *)
(***************************************************************************)
\* a slip of the dispatch: under powershell every item goes to the shell
safe_run_command_shell_first(item, sk) ==
    IF sk = s_powershell /\ item.kind \in {"str", "argv"} THEN "run_process_shell"
    ELSE IF item.kind = "argv"
    THEN IF item.argv_is_list THEN "run_process_argv" ELSE "ValueError"
    ELSE IF item.kind = "str" THEN "run_process_shell"
    ELSE "ValueError"

\* safe_run_command: the hook a run-item goes to, or the ValueError raised
safe_run_command(item, sk) ==
    IF item.kind = "argv"
    THEN IF item.argv_is_list THEN "run_process_argv" ELSE "ValueError"
    ELSE IF item.kind = "str" THEN "run_process_shell"
    ELSE "ValueError"

\* a slip of the handler: the failure is always absorbed
OnRunError_always_continue(coe) == "continue"

\* a slip of the handler: the failure is never absorbed
OnRunError_always_raise(coe) == "raise"

\* a slip of the except clause: every exception is caught
Caught_any(exc) == TRUE

\* except subprocess.CalledProcessError: the exceptions the handler catches
Caught(exc) == exc = "CalledProcessError"

\* except CalledProcessError in the run loop
OnRunError(coe) == IF coe THEN "continue" ELSE "raise"

\* no write_file, no clone_repos, no run key
StepNoOp ==
    /\ AtStep
    /\ ShouldRun(step, step_ctx)
    /\ Dispatch(step) = "noop"
    /\ out' = out \o << Banner, Line("noop", << >>) >>
    /\ NextStep
    /\ UNCHANGED << argVars, loadVars, step, fsVars, effects, outcome >>

\* the head of a `run` step, up to the first run-item
StepRun ==
    /\ AtStep
    /\ ShouldRun(step, step_ctx)
    /\ Dispatch(step) = "run"
    /\ LET r == step.run[1]
       IN  IF ~r.islist
           THEN /\ out' = Append(out, Banner)
                /\ Raise("SystemExit")
                /\ UNCHANGED << idx, ent, pit >>
           ELSE IF ~Performs(dry_run)
           THEN /\ out' = out \o << Banner >>
                         \o [i \in 1..Len(r.items) |->
                                [kind |-> "dry_run", idx |-> idx, text |-> r.items[i].s]]
                /\ NextStep
                /\ UNCHANGED outcome
           ELSE /\ out' = Append(out, Banner)
                /\ IF r.items = << >>
                   THEN NextStep
                   ELSE pc' = "run" /\ ent' = 1 /\ UNCHANGED << idx, pit >>
                /\ UNCHANGED outcome
    /\ UNCHANGED << argVars, loadVars, step, fsVars, effects >>

\* after run-item ent: the next item, or the next step
AfterRunItem ==
    IF ent < Len(step.run[1].items)
    THEN pc' = "run" /\ ent' = ent + 1 /\ UNCHANGED << idx, pit >>
    ELSE NextStep

\* one iteration of `for itm in run_items`
RunItem ==
    /\ pc = "run"
    /\ LET itm == step.run[1].items[ent]
           hook == safe_run_command(itm, shell_kind)
       IN  IF hook = "ValueError"
           THEN IF Caught("ValueError") /\ OnRunError(step.continue_on_error) = "continue"
                THEN /\ out' = out \o << Line("error", << >>), Line("continuing", << >>) >>
                     /\ AfterRunItem
                     /\ UNCHANGED << effects, outcome >>
                ELSE /\ Raise("ValueError")
                     /\ UNCHANGED << idx, ent, pit, out, effects >>
           ELSE \E rc \in {0, 1} :
                  /\ effects' = Append(effects,
                         IF hook = "run_process_argv"
                         THEN Effect("argv", "run", << >>, itm.argv, << >>, cwd, step_env, << >>, rc)
                         ELSE Effect("shell", "run", itm.s, << >>, shell_kind, cwd, step_env, << >>, rc))
                  /\ IF rc = 0
                     THEN AfterRunItem /\ UNCHANGED << out, outcome >>
                     ELSE IF OnRunError(step.continue_on_error) = "continue"
                     THEN /\ out' = out \o << Line("error", << >>), Line("continuing", << >>) >>
                          /\ AfterRunItem
                          /\ UNCHANGED outcome
                     ELSE /\ out' = Append(out, Line("error", << >>))
                          /\ Raise("CalledProcessError")
                          /\ UNCHANGED << idx, ent, pit >>
    /\ UNCHANGED << argVars, loadVars, step, fsVars >>

(***************************************************************************)
(* clone_repos.                                                            *)
(***************************************************************************)
CurClone == step.clone_repos[1]

\* cr.get("default_org") or (spec.get("inputs", {}) or {}).get("DEFAULT_ORG")
DefaultOrg ==
    IF Truthy(CurClone.default_org) THEN CurClone.default_org
    ELSE IF s_DEFAULT_ORG \in DOMAIN spec.inputs THEN Some(spec.inputs[s_DEFAULT_ORG])
    ELSE None

\* dest = dest_windows if os_key == "windows" else dest_unix
Dest == IF os_key = s_windows THEN CurClone.dest_windows ELSE CurClone.dest_unix

\* Path(interpolate_string(dest, step_ctx)).expanduser().resolve(); the paths
\* of the model are absolute and normalised once expanded
DestPath == ExpandUser(interpolate_string(Dest[1], step_ctx), HomeDir)

\* name = entry.get("name") or Path(url.rstrip("/").split("/")[-1]).stem
EntryName(entry, url) == IF Truthy(entry.name) THEN entry.name[1] ELSE StemOfUrl(url)

\* target = dest_path / name
Target(entry) == PathJoin(DestPath, EntryName(entry, resolve_repo_url(entry, DefaultOrg).url))

\* except CalledProcessError around clone_repo_to
OnCloneError(coe) == IF coe THEN "continue" ELSE "raise"

\* a slip of the handler: a failing post_install item always aborts
OnPostError_always_raise(coe) == "raise"

\* except CalledProcessError around a post_install item
OnPostError(coe) == IF coe THEN "continue" ELSE "raise"

\* the hook a post_install item goes to
post_dispatch(pitem) ==
    IF pitem.kind = "argv" THEN "run_process_argv" ELSE "run_process_shell"

\* the head of a clone_repos step, up to the first repo entry
StepCloneRepos ==
    /\ AtStep
    /\ ShouldRun(step, step_ctx)
    /\ Dispatch(step) = "clone_repos"
    /\ IF ~Truthy(Dest)
       THEN /\ out' = Append(out, Banner)
            /\ Raise("SystemExit")
            /\ UNCHANGED << idx, ent, pit >>
       ELSE IF Hangs(Dest[1], step_ctx)
       THEN /\ out' = Append(out, Banner)
            /\ pc' = "hang"
            /\ UNCHANGED << idx, ent, pit, outcome >>
       ELSE IF ~Performs(dry_run)
       THEN /\ out' = out \o << Banner, Line("dry_clone", DestPath) >>
            /\ NextStep
            /\ UNCHANGED outcome
       ELSE /\ out' = Append(out, Banner)
            /\ IF CurClone.repos = << >>
               THEN NextStep
               ELSE pc' = "clone" /\ ent' = 1 /\ UNCHANGED << idx, pit >>
            /\ UNCHANGED outcome
    /\ UNCHANGED << argVars, loadVars, step, fsVars, effects >>

\* `continue` of `for entry in repos`, or the end of that loop
NextEntry ==
    IF ent < Len(CurClone.repos)
    THEN pc' = "clone" /\ ent' = ent + 1 /\ pit' = 0 /\ UNCHANGED idx
    ELSE NextStep

\* after the clone of repos[ent]: its post_install items, if any
AfterClone ==
    IF CurClone.repos[ent].post_install # << >>
    THEN pc' = "post" /\ pit' = 1 /\ UNCHANGED << idx, ent >>
    ELSE NextEntry

\* one iteration of `for entry in repos`, up to the first post_install item
CloneEntry ==
    /\ pc = "clone"
    /\ LET entry == CurClone.repos[ent]
           res == resolve_repo_url(entry, DefaultOrg)
           target == Target(entry)
       IN  IF ~res.ok
           THEN /\ Raise("SystemExit")
                /\ UNCHANGED << fsVars, idx, ent, pit, out, effects >>
           ELSE IF Exists(target)
           THEN \* clone_repo_to: skip clone
                /\ out' = Append(out, Line("skip_clone", target))
                /\ AfterClone
                /\ UNCHANGED << fsVars, effects, outcome >>
           ELSE \E rc \in {0, 1} :
                  /\ effects' = Append(effects,
                         Effect("clone", "clone_repos", res.url, << >>, << >>, None, EmptyDict,
                                target, rc))
                  /\ files' = files
                  /\ IF rc = 0
                     THEN /\ dirs' = dirs \cup Ancestors(target) \cup {target}
                          /\ out' = Append(out, Line("cloning", target))
                          /\ AfterClone
                          /\ UNCHANGED outcome
                     ELSE /\ dirs' = dirs \cup Ancestors(target)
                          /\ out' = out \o << Line("cloning", target), Line("error", << >>) >>
                          /\ IF OnCloneError(step.continue_on_error) = "continue"
                             THEN NextEntry /\ UNCHANGED outcome
                             ELSE Raise("CalledProcessError") /\ UNCHANGED << idx, ent, pit >>
    /\ UNCHANGED << argVars, loadVars, step >>

\* `continue` of `for pitem in post`, or the end of that loop
NextPostItem ==
    IF pit < Len(CurClone.repos[ent].post_install)
    THEN pc' = "post" /\ pit' = pit + 1 /\ UNCHANGED << idx, ent >>
    ELSE NextEntry

\* one iteration of `for pitem in post`
PostItem ==
    /\ pc = "post"
    /\ LET entry == CurClone.repos[ent]
           pitem == entry.post_install[pit]
           target == Target(entry)
       IN  \E rc \in {0, 1} :
             /\ effects' = Append(effects,
                    IF post_dispatch(pitem) = "run_process_argv"
                    THEN Effect("argv", "post_install", << >>,
                                IF pitem.argv_is_list THEN pitem.argv ELSE << pitem.s >>,
                                << >>, Some(target), step_env, << >>, rc)
                    ELSE Effect("shell", "post_install", pitem.s, << >>, shell_kind,
                                Some(target), step_env, << >>, rc))
             /\ IF rc = 0
                THEN NextPostItem /\ UNCHANGED << out, outcome >>
                ELSE /\ out' = Append(out, Line("error", << >>))
                     /\ IF OnPostError(step.continue_on_error) = "continue"
                        THEN NextPostItem /\ UNCHANGED outcome
                        ELSE Raise("CalledProcessError") /\ UNCHANGED << idx, ent, pit >>
    /\ UNCHANGED << argVars, loadVars, step, fsVars >>

(***************************************************************************)
(* The specification.                                                      *)
(***************************************************************************)
Next ==
    \/ Main
    \/ LoadSpec
    \/ BeginStep
    \/ Finish
    \/ StepSkip
    \/ StepWriteFile
    \/ StepNoOp
    \/ StepRun
    \/ RunItem
    \/ StepCloneRepos
    \/ CloneEntry
    \/ PostItem

Spec == Init /\ [][Next]_vars

(***************************************************************************)
(* Properties.                                                             *)
(***************************************************************************)
\* step k of the run as the loop interpolates it
StepAt(k) == deep_interpolate(steps[k], step_ctx)

IsBanner(l) == l.kind = "banner"

Banners == SelectSeq(out, IsBanner)

\* the list and position the step of an output line was written at
LineSrc(l) == steps[l.idx].src

\* the place of a step in the document order: common.steps, then os.<key>.steps
DocPos(src) == IF src[1] = s_common THEN src[2] ELSE Len(spec.common) + src[2]

ActiveOs == ResolveOs(host)

\* the steps of the document that belong to the run, by list and position
ActiveSrcs ==
    {<< s_common, i >> : i \in 1..Len(spec.common)}
        \cup {<< ActiveOs, i >> : i \in 1..Len(OsBlock(spec, ActiveOs).steps)}

RawStepAt(src) == IF src[1] = s_common THEN spec.common[src[2]] ELSE spec.os[src[1]].steps[src[2]]

GuardPasses(src) == ShouldRun(deep_interpolate(RawStepAt(src), step_ctx), step_ctx)

\* C1: steps take effect in the order common.steps then os.<active key>.steps,
\* each list in its literal order; a step of another OS key never has an
\* effect; a run that completes has printed the banner of every step of the
\* two lists whose guard passes, so that common = [A,B], os.X = [C,D] gives
\* exactly A,B,C,D.
C1_StepOrder ==
    /\ \A i \in 1..Len(effects) : effects[i].src[1] \in {s_common, ActiveOs}
    /\ \A i \in 1..Len(Banners) : LineSrc(Banners[i])[1] \in {s_common, ActiveOs}
    /\ \A i, j \in 1..Len(effects) :
           i < j => DocPos(effects[i].src) <= DocPos(effects[j].src)
    /\ \A i, j \in 1..Len(Banners) :
           i < j => DocPos(LineSrc(Banners[i])) < DocPos(LineSrc(Banners[j]))
    /\ (pc = "done" /\ outcome = "ok") =>
           \A t \in ActiveSrcs :
               GuardPasses(t) => \E i \in 1..Len(Banners) : LineSrc(Banners[i]) = t

\* a completed run in which two common steps and an OS-specific step had
\* effects, while the other OS key lists a step too
C1_Witness ==
    /\ pc = "done" /\ outcome = "ok"
    /\ \E a, b, c \in 1..Len(effects) :
           /\ a < b /\ b < c
           /\ effects[a].src = << s_common, 1 >>
           /\ effects[b].src = << s_common, 2 >>
           /\ effects[c].src = << ActiveOs, 1 >>
    /\ \E k \in DOMAIN spec.os : k # ActiveOs /\ spec.os[k].steps # << >>

\* the workspace-root input of the active OS key
WorkspaceRootKey == IF ActiveOs = s_windows THEN s_WORKSPACE_ROOT_WIN ELSE s_WORKSPACE_ROOT

\* that input is defined and its ~-expanded path existed when the run began
WorkspaceRootPreexists ==
    /\ spec_exists
    /\ WorkspaceRootKey \in DOMAIN BuildCtx(spec, overrides_list, ActiveOs)
    /\ ExpandUser(BuildCtx(spec, overrides_list, ActiveOs)[WorkspaceRootKey], HomeDir) \in dirs0

\* C2: when the workspace root already exists the run aborts with SystemExit
\* before any banner is printed and before any step acts.
C2_WorkspaceGuard ==
    WorkspaceRootPreexists =>
        /\ pc \in {"init", "done"}
        /\ pc = "done" => outcome = "SystemExit"
        /\ Banners = << >>
        /\ effects = << >>

IsRunFailure(e) == e.site = "run" /\ e.rc # 0

StepCoe(e) == steps[e.idx].continue_on_error

\* C3: a failing run-item of a step without continue_on_error is the last
\* thing the run does: the exception leaves run_spec, no later item or step
\* acts, and what earlier steps wrote or cloned is still there.
C3_AbortOnRunFailure ==
    \A i \in 1..Len(effects) :
        (IsRunFailure(effects[i]) /\ ~StepCoe(effects[i])) =>
            /\ i = Len(effects)
            /\ pc = "done"
            /\ outcome = "CalledProcessError"
            /\ out[Len(out)].kind = "error"
            /\ \A k \in 1..(i - 1) :
                   /\ (effects[k].kind = "write" /\ effects[k].rc = 0)
                          => effects[k].path \in DOMAIN files
                   /\ (effects[k].kind = "clone" /\ effects[k].rc = 0)
                          => effects[k].path \in dirs

\* the second item of a three-item list failed after an earlier step wrote a
\* file, and a later step was still to come
C3_Witness ==
    /\ Len(effects) >= 3
    /\ effects[1].kind = "write"
    /\ LET e == effects[Len(effects)]
       IN  /\ IsRunFailure(e) /\ ~StepCoe(e)
           /\ e.ent = 2
           /\ e.ent < Len(steps[e.idx].run[1].items)
           /\ e.idx < Len(steps)

\* the run-items of the step an effect belongs to
RunItemsOf(e) == steps[e.idx].run[1].items

LastEffect == effects[Len(effects)]

\* step k is a `run` step whose items the run goes through
PerformsRunStep(k) ==
    LET st == StepAt(k)
    IN  /\ ~dry_run
        /\ ShouldRun(st, step_ctx)
        /\ ~IsSome(st.write_file) /\ ~IsSome(st.clone_repos)
        /\ IsSome(st.run) /\ st.run[1].islist

\* C4: a failing run-item of a step with continue_on_error is followed by the
\* next item of the same list; the failure never becomes the outcome of the
\* run; a run that completes has executed every item of every `run` step it
\* performed, in list order, and has reached every later step.
C4_ContinueOnRunFailure ==
    /\ \A i \in 1..Len(effects) :
           LET e == effects[i]
           IN  (IsRunFailure(e) /\ StepCoe(e)) =>
                   /\ (i < Len(effects) /\ e.ent < Len(RunItemsOf(e))) =>
                          /\ effects[i + 1].site = "run"
                          /\ effects[i + 1].idx = e.idx
                          /\ effects[i + 1].ent = e.ent + 1
                   /\ (i = Len(effects) /\ e.ent < Len(RunItemsOf(e))) =>
                          /\ idx = e.idx
                          /\ \/ pc = "run" /\ ent = e.ent + 1
                             \/ pc = "done" /\ outcome = "ValueError"
                   /\ i = Len(effects) => outcome # "CalledProcessError"
    /\ outcome = "CalledProcessError" => (LastEffect.rc # 0 /\ ~StepCoe(LastEffect))
    /\ (pc = "done" /\ outcome = "ok") =>
           /\ \A k \in 1..Len(steps) :
                  PerformsRunStep(k) =>
                      LET done == SelectSeq(effects, LAMBDA e : e.idx = k /\ e.site = "run")
                      IN  /\ Len(done) = Len(steps[k].run[1].items)
                          /\ \A m \in 1..Len(done) : done[m].ent = m
           /\ \A t \in ActiveSrcs :
                  GuardPasses(t) => \E i \in 1..Len(Banners) : LineSrc(Banners[i]) = t

\* a run that completed although a run-item failed before the end of its
\* list; the rest of the list and a later step ran
C4_Witness ==
    /\ pc = "done" /\ outcome = "ok"
    /\ \E i \in 1..Len(effects) :
           /\ IsRunFailure(effects[i]) /\ StepCoe(effects[i])
           /\ effects[i].ent < Len(RunItemsOf(effects[i]))
           /\ \E j \in (i + 1)..Len(effects) : effects[j].idx > effects[i].idx

\* the guard of the step the loop is at is present and evaluates to false
GuardFalseHere ==
    /\ AtStep
    /\ Truthy(step.when)
    /\ ~CondOk(step.when[1], step_ctx)

\* C5: at a step whose guard evaluates to false the run prints nothing, calls
\* no hook, leaves the file system alone and moves to the next step.
C5_SilentSkip ==
    [][GuardFalseHere =>
           /\ out' = out
           /\ effects' = effects
           /\ dirs' = dirs /\ files' = files
           /\ outcome' = outcome
           /\ pc' = "loop" /\ idx' = idx + 1]_vars

\* the run went past a step that carries an action and a comparison that is
\* false, and nothing of that step is in the output or among the effects
C5_Witness ==
    /\ pc = "loop"
    /\ \E k \in 1..(idx - 1) :
           LET st == StepAt(k)
           IN  /\ Truthy(st.when)
               /\ WhenMatch(st.when[1]).ok
               /\ ~CondOk(st.when[1], step_ctx)
               /\ IsSome(st.clone_repos) \/ IsSome(st.run)
               /\ \A i \in 1..Len(out) : out[i].idx # k
               /\ \A i \in 1..Len(effects) : effects[i].idx # k

IsIdent(w, a, b) ==
    a <= b /\ w[a] \in IdentStart /\ \A i \in (a + 1)..b : w[i] \in IdentChar

\* the grammar of a guard: ^\s*IDENT\s*(==|!=)\s*VALUE\s*$
WhenParses(w) ==
    \E a \in 1..Len(w) :
        /\ AllSpace(w, 1, a - 1)
        /\ \E b \in a..Len(w) :
               /\ IsIdent(w, a, b)
               /\ \E o \in (b + 1)..(Len(w) - 1) :
                      /\ AllSpace(w, b + 1, o - 1)
                      /\ w[o] \in {"=", "!"} /\ w[o + 1] = "="
                      /\ \E v1 \in (o + 2)..Len(w) :
                             /\ AllSpace(w, o + 2, v1 - 1)
                             /\ \E v2 \in v1..Len(w) :
                                    /\ \A i \in v1..v2 : w[i] # "\n"
                                    /\ AllSpace(w, v2 + 1, Len(w))

\* C6: a step that carries a `when` which, once interpolated, is not a single
\* comparison is skipped: nothing of it is printed or executed, and the run
\* goes on.
C6_FailClosed ==
    \A k \in 1..Len(steps) :
        LET st == StepAt(k)
        IN  (IsSome(st.when) /\ ~WhenParses(st.when[1])) =>
                /\ \A i \in 1..Len(out) : out[i].idx # k
                /\ \A i \in 1..Len(effects) : effects[i].idx # k
                /\ (pc = "done" /\ outcome # "ok") => idx # k

\* C7: a run-item of a `run` step that is a mapping with `argv` reaches
\* run_process_argv with its argv, never run_process_shell, whatever the OS
\* key and the step's shell.
C7_ArgvNeverShell ==
    \A i \in 1..Len(effects) :
        LET e == effects[i]
        IN  (e.site = "run" /\ RunItemsOf(e)[e.ent].kind = "argv") =>
                /\ e.kind = "argv"
                /\ e.argv = InterpSeq(RunItemsOf(e)[e.ent].argv, step_ctx)

\* an argv item was executed in a step that sets shell: powershell
C7_Witness ==
    \E i \in 1..Len(effects) :
        /\ effects[i].site = "run"
        /\ effects[i].kind = "argv"
        /\ RunItemsOf(effects[i])[effects[i].ent].kind = "argv"
        /\ steps[effects[i].idx].shell = Some(s_powershell)

\* C8: in dry-run mode no step of the run calls a hook or changes the file
\* system, and no item or entry loop is entered.
C8_DryRunNoEffect ==
    [][dry_run =>
           /\ effects' = << >>
           /\ dirs' = dirs0 /\ files' = files
           /\ pc' \notin {"run", "clone", "post"}]_vars

\* a completed dry run that printed a write_file, a clone_repos and a run step
C8_Witness ==
    /\ dry_run
    /\ pc = "done" /\ outcome = "ok"
    /\ \E i, j, k \in 1..Len(out) :
           out[i].kind = "dry_write" /\ out[j].kind = "dry_clone" /\ out[k].kind = "dry_run"
    /\ effects = << >> /\ dirs = dirs0 /\ files = EmptyDict

Marked == \E i \in 1..Len(out) : out[i].kind = "complete"

\* C9: the completion marker is printed only by a run in which no unrecovered
\* failure occurred, and is then the last line; a run with an unrecovered
\* failure (process failure, configuration error, I/O error, workspace-guard
\* trip) ends without the marker and with a failing outcome.
C9_CompletionMarker ==
    /\ Marked =>
           /\ out[Len(out)].kind = "complete"
           /\ \A i \in 1..(Len(out) - 1) : out[i].kind # "complete"
           /\ pc = "done" /\ outcome = "ok"
           /\ \A i \in 1..Len(effects) :
                  effects[i].rc # 0 => (effects[i].kind # "write" /\ StepCoe(effects[i]))
           /\ ~WorkspaceRootPreexists
    /\ (pc = "done" /\ ~Marked) => outcome \notin {"ok", "running"}
    /\ (pc = "done" /\ outcome # "ok") => ~Marked
    /\ (pc = "done" /\ WorkspaceRootPreexists) => outcome = "SystemExit"

IsCloneStepFailure(e) == e.site \in {"clone_repos", "post_install"} /\ e.rc # 0

SameEntry(e, f) == f.idx = e.idx /\ f.ent = e.ent

PostItemsOf(e) == steps[e.idx].clone_repos[1].repos[e.ent].post_install

\* the engine has left the repo entry of e
LeftEntry(e, i) ==
    /\ i < Len(effects) => ~SameEntry(e, effects[i + 1])
    /\ i = Len(effects) =>
           /\ ~(pc = "post" /\ idx = e.idx /\ ent = e.ent)
           /\ outcome # "CalledProcessError"

AbortedAt(i) == i = Len(effects) /\ pc = "done" /\ outcome = "CalledProcessError"

\* C10 as stated: after a failed clone or post_install item the engine
\* proceeds to the next repo entry when continue_on_error is set, and aborts
\* the run otherwise.
C10_NextEntryAfterFailure ==
    \A i \in 1..Len(effects) :
        LET e == effects[i]
        IN  IsCloneStepFailure(e) => IF StepCoe(e) THEN LeftEntry(e, i) ELSE AbortedAt(i)

\* C10 amended: with continue_on_error a failed clone is followed by the next
\* repo entry, a failed post_install item by the next post_install item of the
\* same entry and, after the last item, by the next entry; without
\* continue_on_error either failure ends the run.
C10_CloneFailurePolicy ==
    \A i \in 1..Len(effects) :
        LET e == effects[i]
        IN  IsCloneStepFailure(e) =>
                IF ~StepCoe(e) THEN AbortedAt(i)
                ELSE IF e.site = "clone_repos" \/ e.pit = Len(PostItemsOf(e)) THEN LeftEntry(e, i)
                ELSE /\ i < Len(effects) =>
                            /\ SameEntry(e, effects[i + 1])
                            /\ effects[i + 1].site = "post_install"
                            /\ effects[i + 1].pit = e.pit + 1
                     /\ i = Len(effects) =>
                            /\ pc = "post" /\ idx = e.idx /\ ent = e.ent /\ pit = e.pit + 1
                            /\ outcome = "running"

\* with continue_on_error: a post_install item failed and the next item of
\* the same entry ran; a clone failed and the next entry was taken up
C10_Witness ==
    \E i, j \in 1..Len(effects) :
        /\ i < Len(effects) /\ j < Len(effects)
        /\ effects[i].site = "post_install" /\ effects[i].rc # 0 /\ StepCoe(effects[i])
        /\ SameEntry(effects[i], effects[i + 1])
        /\ effects[j].site = "clone_repos" /\ effects[j].rc # 0 /\ StepCoe(effects[j])
        /\ effects[j + 1].idx = effects[j].idx /\ effects[j + 1].ent = effects[j].ent + 1

\* the repo entry the clone loop is at
CurEntry == CurClone.repos[ent]

\* the environment a command of the current step is given: the merged
\* environment overridden by the step's own `env`
ExpectedStepEnv == step.env @@ merged_env

NewEffect == effects'[Len(effects')]

OneMoreEffect == Len(effects') = Len(effects) + 1 /\ SubSeq(effects', 1, Len(effects)) = effects

\* the post_install items of the current entry are taken up from the first one
EntersPostInstall ==
    CurEntry.post_install # << >> => (pc' = "post" /\ idx' = idx /\ ent' = ent /\ pit' = 1)

\* C11: in a clone_repos step that is performed the entries are taken in
\* listed order; an entry whose target exists is not cloned, which is no
\* error and leaves the file system alone, and an entry whose target is
\* absent is cloned to it; in both cases the entry's post_install items then
\* run one after the other, each with the target as working directory and
\* the step's merged environment.
C11_CloneIdempotent ==
    [][/\ (pc = "step" /\ pc' = "clone") => ent' = 1
       /\ (pc \in {"clone", "post"} /\ pc' = "clone") => (idx' = idx /\ ent' = ent + 1)
       /\ (pc = "clone" /\ resolve_repo_url(CurEntry, DefaultOrg).ok) =>
              IF Target(CurEntry) \in dirs \/ Target(CurEntry) \in DOMAIN files
              THEN /\ effects' = effects
                   /\ dirs' = dirs /\ files' = files
                   /\ outcome' = "running"
                   /\ EntersPostInstall
              ELSE /\ OneMoreEffect
                   /\ NewEffect.kind = "clone" /\ NewEffect.path = Target(CurEntry)
                   /\ NewEffect.idx = idx /\ NewEffect.ent = ent
                   /\ NewEffect.rc = 0 => (Target(CurEntry) \in dirs' /\ EntersPostInstall)
       /\ pc = "post" =>
              /\ OneMoreEffect
              /\ NewEffect.site = "post_install"
              /\ NewEffect.idx = idx /\ NewEffect.ent = ent /\ NewEffect.pit = pit
              /\ NewEffect.cwd = Some(Target(CurEntry))
              /\ NewEffect.env = ExpectedStepEnv
              /\ IF CurEntry.post_install[pit].kind = "argv"
                 THEN CurEntry.post_install[pit].argv_is_list
                          => NewEffect.argv = CurEntry.post_install[pit].argv
                 ELSE NewEffect.cmd = CurEntry.post_install[pit].s
              /\ (NewEffect.rc = 0 /\ pit < Len(CurEntry.post_install)) =>
                     (pc' = "post" /\ idx' = idx /\ ent' = ent /\ pit' = pit + 1)
      ]_vars

\* the first entry's target existed before the run: it was not cloned and its
\* two post_install items ran in it with the step's env; the second entry was
\* cloned and its item ran
C11_Witness ==
    /\ Len(effects) >= 4
    /\ effects[1].site = "post_install" /\ effects[1].ent = 1 /\ effects[1].pit = 1
    /\ effects[1].cwd[1] \in dirs0
    /\ effects[1].env[s_V] = << "s" >>
    /\ effects[2].site = "post_install" /\ effects[2].ent = 1 /\ effects[2].pit = 2
    /\ effects[3].kind = "clone" /\ effects[3].ent = 2 /\ effects[3].rc = 0
    /\ effects[4].site = "post_install" /\ effects[4].ent = 2
    /\ effects[4].cwd = Some(effects[3].path)

\* the run has loaded a spec
Loaded == spec_exists /\ IsSome(spec_path) /\ pc # "init" /\ ~(pc = "hang" /\ idx = 0)

\* C12: for every step, the OS its guard and its interpolation see is the
\* resolved OS key, whatever inputs, --set overrides, the spec's env, the
\* OS-specific env and the inherited process environment say about a variable
\* named OS.
C12_OsNotOverridable ==
    Loaded =>
        /\ s_OS \in DOMAIN step_ctx
        /\ step_ctx[s_OS] = ActiveOs

IsCommand(e) == e.kind \in {"shell", "argv"}

HasOverride(kv) == \E i \in 1..Len(overrides_list) : overrides_list[i] = kv

\* the scenario: inputs.FOO = "a", --set FOO=b, env.COMBINED = "{{FOO}}"
OverrideScenario ==
    /\ Loaded
    /\ s_FOO \in DOMAIN spec.inputs /\ spec.inputs[s_FOO] = << "a" >>
    /\ HasOverride(<< "F", "O", "O", "=", "b" >>)
    /\ s_COMBINED \in DOMAIN spec.env
    /\ spec.env[s_COMBINED] = << "{", "{", "F", "O", "O", "}", "}" >>

\* C13: in that scenario every executed command is handed COMBINED=b,
\* whatever the inherited process environment is.
C13_OverrideBeforeEnv ==
    OverrideScenario =>
        \A i \in 1..Len(effects) :
            IsCommand(effects[i]) =>
                /\ s_COMBINED \in DOMAIN effects[i].env
                /\ effects[i].env[s_COMBINED] = << "b" >>

\* the four layers of the environment of step k, as the documents and the
\* process give them
EnvLayersOf(k) == << ProcEnv(host), spec.env, OsBlock(spec, ActiveOs).env, steps[k].env >>

\* the value of name n in the last of the layers ls that defines it
LastDefined(n, ls) ==
    ls[CHOOSE i \in 1..Len(ls) :
           n \in DOMAIN ls[i] /\ \A j \in (i + 1)..Len(ls) : n \notin DOMAIN ls[j]][n]

TokenFree(v) ==
    \A i \in 1..Len(v) : ~MatchBracesAt(v, i).ok /\ ~MatchDollarAt(v, i).ok

\* C14: the environment of every command has exactly the names of the four
\* layers process env, spec env, env of the active OS key, step env, and each
\* name (whose value is no template) has the value of the last of these
\* layers defining it; the env of another OS key contributes nothing.
C14_EnvLayering ==
    \A i \in 1..Len(effects) :
        LET e == effects[i]
            ls == EnvLayersOf(e.idx)
        IN  IsCommand(e) =>
                /\ DOMAIN e.env = UNION {DOMAIN ls[j] : j \in 1..Len(ls)}
                /\ \A n \in DOMAIN e.env :
                       TokenFree(LastDefined(n, ls)) => e.env[n] = LastDefined(n, ls)

\* all four layers define V and so does the env of the other OS key, which
\* also defines W: the step with the step env saw its value, the next step
\* the value of the OS-specific env
C14_Witness ==
    \E i, j \in 1..Len(effects) :
        /\ i < j
        /\ IsCommand(effects[i]) /\ IsCommand(effects[j])
        /\ \A m \in 1..4 : s_V \in DOMAIN EnvLayersOf(effects[i].idx)[m]
        /\ \E k \in DOMAIN spec.os : k # ActiveOs /\ s_W \in DOMAIN spec.os[k].env
        /\ effects[i].env[s_V] = << "s" >>
        /\ effects[j].env[s_V] = << "o" >>
        /\ s_W \notin DOMAIN effects[j].env

\* the names of the {{NAME}} and ${NAME} tokens of a string
Tokens(v) ==
    {MatchBracesAt(v, i).key : i \in {j \in 1..Len(v) : MatchBracesAt(v, j).ok}}
        \cup {MatchDollarAt(v, i).key : i \in {j \in 1..Len(v) : MatchDollarAt(v, j).ok}}

\* the string of a run-item as the document gives it
RawItemOf(e) == steps[e.idx].run[1].items[e.ent].s

IsShellRunItem(e) == e.site = "run" /\ e.kind = "shell"

\* C15: a template whose tokens all name variables of the context is
\* interpolated to a string with no token naming a variable of the context,
\* whatever the values are; the tokens of a template that name no variable
\* are replaced by the empty string.
C15_NoKnownTokenLeft ==
    \A i \in 1..Len(effects) :
        LET e == effects[i]
        IN  IsShellRunItem(e) =>
                /\ Tokens(RawItemOf(e)) \subseteq DOMAIN step_ctx
                       => Tokens(e.cmd) \cap DOMAIN step_ctx = {}
                /\ (Tokens(RawItemOf(e)) \cap DOMAIN step_ctx = {}
                        /\ Tokens(RawItemOf(e)) # {}) => Tokens(e.cmd) = {}

\* the repo entry of a clone effect, as the document gives it
RawEntryOf(e) == steps[e.idx].clone_repos[1].repos[e.ent]

\* the default_org run_spec passes for step k: the step's, else inputs.DEFAULT_ORG
PassedDefaultOrg(k) ==
    IF Truthy(steps[k].clone_repos[1].default_org) THEN steps[k].clone_repos[1].default_org
    ELSE IF s_DEFAULT_ORG \in DOMAIN spec.inputs THEN Some(spec.inputs[s_DEFAULT_ORG])
    ELSE None

GitHubUrl(org, name) == GitHub \o org \o << "/" >> \o name \o DotGit

\* C16: the URL a repo is cloned from is the entry's url when that is
\* non-empty, whatever name, org and default_org are; otherwise, the name
\* being present, https://github.com/{org}/{name}.git with the entry's org
\* when that is non-empty and with default_org only when it is not; the entry
\* the loop holds is the entry as it was interpolated.
C16_UrlPrecedence ==
    /\ \A i \in 1..Len(effects) :
           LET e == effects[i]
           IN  e.kind = "clone" =>
                   LET r == RawEntryOf(e)
                       d == PassedDefaultOrg(e.idx)
                   IN  /\ Truthy(r.url) => e.cmd = r.url[1]
                       /\ (~Truthy(r.url) /\ Truthy(r.name) /\ Truthy(r.org))
                              => e.cmd = GitHubUrl(r.org[1], r.name[1])
                       /\ (~Truthy(r.url) /\ Truthy(r.name) /\ ~Truthy(r.org) /\ Truthy(d))
                              => e.cmd = GitHubUrl(d[1], r.name[1])
    /\ pc \in {"clone", "post"} => step = StepAt(idx)

\* an entry with an empty url, a name, an org and a default_org at both
\* levels was cloned from the URL of its own org
C16_Witness ==
    \E i \in 1..Len(effects) :
        /\ effects[i].kind = "clone"
        /\ RawEntryOf(effects[i]).url = Some(<< >>)
        /\ Truthy(RawEntryOf(effects[i]).name)
        /\ Truthy(RawEntryOf(effects[i]).org)
        /\ Truthy(steps[effects[i].idx].clone_repos[1].default_org)
        /\ s_DEFAULT_ORG \in DOMAIN spec.inputs
        /\ effects[i].cmd = GitHubUrl(RawEntryOf(effects[i]).org[1], RawEntryOf(effects[i]).name[1])

\* the resolution fails: SystemExit leaves run_spec and nothing is cloned
ResolutionFails ==
    /\ pc' = "done" /\ outcome' = "SystemExit"
    /\ effects' = effects /\ dirs' = dirs /\ files' = files

NoOrgAtAll == ~Truthy(CurEntry.org) /\ ~Truthy(DefaultOrg)

\* C17: for an entry without a non-empty url, the resolution fails when the
\* name is missing; with a name and neither org nor default_org, a name
\* containing "/" is cloned from https://github.com/{name}.git and any other
\* name fails with the `no org` error.
C17_ResolutionErrors ==
    [][(pc = "clone" /\ ~Truthy(CurEntry.url)) =>
           IF ~Truthy(CurEntry.name)
           THEN /\ ResolutionFails
                /\ resolve_repo_url(CurEntry, DefaultOrg).err
                       = "repo entry must contain 'url' or 'name'"
           ELSE IF NoOrgAtAll /\ Contains(CurEntry.name[1], "/")
           THEN outcome' # "SystemExit"
                    /\ IF Exists(Target(CurEntry)) THEN effects' = effects
                       ELSE /\ OneMoreEffect
                            /\ NewEffect.kind = "clone"
                            /\ NewEffect.cmd = GitHub \o CurEntry.name[1] \o DotGit
           ELSE IF NoOrgAtAll
           THEN /\ ResolutionFails
                /\ resolve_repo_url(CurEntry, DefaultOrg).err
                       = "No org provided and default_org not set"
           ELSE outcome' # "SystemExit"
      ]_vars

\* an entry with a name without "/" and no org, in a spec without any
\* default org, ended the run
C17_Witness ==
    /\ pc = "done" /\ outcome = "SystemExit" /\ effects = << >>
    /\ IsSome(step) /\ IsSome(step.clone_repos) /\ ent = 1
    /\ ~Truthy(CurEntry.url) /\ Truthy(CurEntry.name) /\ ~Contains(CurEntry.name[1], "/")
    /\ NoOrgAtAll

IsWrite(e) == e.kind = "write" /\ e.rc = 0

\* the `append` flag of the step of a write effect
AppendOf(e) == steps[e.idx].write_file[1].append

\* the content of path p after the first n effects of the run, None while
\* nothing was written to it: an append to what is there adds to it, any
\* other write replaces it
RECURSIVE ContentAfter(_, _)
ContentAfter(p, n) ==
    IF n = 0 THEN None
    ELSE LET e == effects[n]
             before == ContentAfter(p, n - 1)
         IN  IF IsWrite(e) /\ e.path = p
             THEN IF AppendOf(e) /\ IsSome(before)
                  THEN Some(before[1] \o e.cmd)
                  ELSE Some(e.cmd)
             ELSE before

WrittenPaths == {effects[i].path : i \in {j \in 1..Len(effects) : IsWrite(effects[j])}}

\* C18: a write with append to a path that exists leaves the previous content
\* followed by the given content; every other write (append false, or the
\* path absent) leaves exactly the given content; so a write followed by an
\* append write to the same path leaves the concatenation of the two.
C18_WriteContent ==
    /\ DOMAIN files = WrittenPaths
    /\ \A p \in WrittenPaths : files[p] = ContentAfter(p, Len(effects))[1]

\* an append to the absent path, then a plain write, then an append: the file
\* holds the contents of the last two
C18_Witness ==
    /\ Len(effects) = 3
    /\ \A i \in 1..3 : IsWrite(effects[i]) /\ effects[i].path = effects[1].path
    /\ AppendOf(effects[1]) /\ effects[1].path \notin dirs0
    /\ ~AppendOf(effects[2]) /\ AppendOf(effects[3])
    /\ files[effects[1].path] = effects[2].cmd \o effects[3].cmd
    /\ effects[2].cmd # << >> /\ effects[3].cmd # << >>

\* a step of the spec carries a configuration defect: a write_file without
\* path, a clone_repos without the destination of the active OS key or with
\* an entry that has no url and no name, a `run` that is not a list
HasConfigDefect ==
    \E k \in 1..Len(steps) :
        LET st == steps[k]
        IN  \/ IsSome(st.write_file) /\ ~IsSome(st.write_file[1].path)
            \/ /\ IsSome(st.clone_repos)
               /\ \/ ~Truthy(IF ActiveOs = s_windows THEN st.clone_repos[1].dest_windows
                             ELSE st.clone_repos[1].dest_unix)
                  \/ \E j \in 1..Len(st.clone_repos[1].repos) :
                         /\ ~Truthy(st.clone_repos[1].repos[j].url)
                         /\ ~Truthy(st.clone_repos[1].repos[j].name)
            \/ IsSome(st.run) /\ ~st.run[1].islist

\* C19: a run of a spec with a configuration defect in any of its steps
\* never has an effect (file write, clone, process) and never ends well.
C19_ConfigErrorsFirst ==
    (Loaded /\ HasConfigDefect) =>
        /\ effects = << >>
        /\ dirs = dirs0 /\ files = EmptyDict
        /\ pc = "done" => outcome # "ok"

\* the run-item the run loop is at is neither a string nor a mapping with an
\* argv list
BadRunItem ==
    \/ step.run[1].items[ent].kind = "other"
    \/ step.run[1].items[ent].kind = "argv" /\ ~step.run[1].items[ent].argv_is_list

\* the step the loop is at writes a file
WritingHere ==
    /\ AtStep /\ ShouldRun(step, step_ctx) /\ ~dry_run
    /\ IsSome(step.write_file) /\ IsSome(step.write_file[1].path)

\* the run ends with exception exc: nothing is written or cloned and the
\* completion marker is not printed
EndsWith(exc) ==
    /\ pc' = "done" /\ outcome' = exc
    /\ dirs' = dirs /\ files' = files
    /\ ~Marked'

RawRunItemOf(e) == steps[e.idx].run[1].items[e.ent]

\* C21: a run-item that is a bare string reaches run_process_shell with the
\* step's `shell` when that is set, and otherwise with powershell when the OS
\* key is windows and bash for any other OS key.
C21_ShellKind ==
    [](\A i \in 1..Len(effects) :
           LET e == effects[i]
           IN  (e.site = "run" /\ RawRunItemOf(e).kind = "str") =>
                   /\ e.kind = "shell"
                   /\ e.cmd = interpolate_string(RawRunItemOf(e).s, step_ctx)
                   /\ e.shell_kind =
                          IF steps[e.idx].shell \notin {None, Some(<< >>)} THEN steps[e.idx].shell[1]
                          ELSE IF ActiveOs = s_windows THEN s_powershell
                          ELSE s_bash)

\* under an OS key that is neither windows nor ubuntu a string ran in bash
C21_Witness ==
    \E i \in 1..Len(effects) :
        /\ effects[i].site = "run" /\ effects[i].kind = "shell"
        /\ ActiveOs \notin {s_windows, s_ubuntu}
        /\ steps[effects[i].idx].shell = None
        /\ effects[i].shell_kind = s_bash

\* the last path segment of a URL, trailing slashes apart
LastSegment(url) ==
    LET ends == {j \in 1..Len(url) : url[j] # "/" /\ \A k \in (j + 1)..Len(url) : url[k] = "/"}
        last == IF ends = {} THEN 0 ELSE CHOOSE j \in ends : TRUE
        starts == {i \in 1..last : \A k \in i..last : url[k] # "/"}
    IN  IF last = 0 THEN << >>
        ELSE SubSeq(url, CHOOSE i \in starts : \A j \in starts : i <= j, last)

\* s without a trailing ".git"
WithoutDotGit(s) ==
    IF Len(s) > Len(DotGit) /\ SubSeq(s, Len(s) - Len(DotGit) + 1, Len(s)) = DotGit
    THEN SubSeq(s, 1, Len(s) - Len(DotGit))
    ELSE s

\* the destination directory the step names for the active OS key
DestOf(k) ==
    ExpandUser(interpolate_string(IF ActiveOs = s_windows
                                  THEN steps[k].clone_repos[1].dest_windows[1]
                                  ELSE steps[k].clone_repos[1].dest_unix[1],
                                  step_ctx), HomeDir)

\* C22: a repo is cloned into <dest>/<entry.name> when the entry has a name,
\* and otherwise into <dest>/<last segment of the URL without a trailing
\* ".git">, <dest> being dest_windows under the windows OS key and dest_unix
\* under any other.
C22_CloneTarget ==
    \A i \in 1..Len(effects) :
        LET e == effects[i]
        IN  e.kind = "clone" =>
                LET r == RawEntryOf(e)
                IN  e.path = PathJoin(DestOf(e.idx),
                                      IF Truthy(r.name) THEN r.name[1]
                                      ELSE WithoutDotGit(LastSegment(e.cmd)))

\* "/.config/forgesetup/spec.yaml"
PosixTail ==
    << "/", ".", "c", "o", "n", "f", "i", "g", "/", "f", "o", "r", "g", "e", "s", "e", "t", "u", "p",
       "/", "s", "p", "e", "c", ".", "y", "a", "m", "l" >>

\* "\forgesetup\spec.yaml"
WindowsTail ==
    << "\\", "f", "o", "r", "g", "e", "s", "e", "t", "u", "p", "\\", "s", "p", "e", "c", ".", "y", "a", "m", "l" >>

\* the default spec path of an OS key: under %APPDATA% for windows, under
\* ~/.config for any other key
DefaultSpecPath(k, env) ==
    IF k = s_windows THEN env[s_APPDATA] \o WindowsTail ELSE env[s_HOME] \o PosixTail

\* C23: a command line without a spec path runs the spec at the default path
\* of the resolved OS key: <APPDATA>\forgesetup\spec.yaml for windows,
\* ~/.config/forgesetup/spec.yaml for any other key.
C23_DefaultSpecPath ==
    (argv_spec = None /\ pc # "main") =>
        spec_path = Some(DefaultSpecPath(ActiveOs, ProcEnv(host)))

\* C24: interpolate_string returns for every template and every context,
\* also when the values of the context name themselves or one another: the
\* run never stays in an interpolation.
C24_InterpolationTerminates == pc # "hang"

\* the names of the spec `env` whose value stays the last definition and
\* names no variable of the spec `env` itself
OwnEnvNames ==
    {n \in DOMAIN spec.env :
        /\ n \notin DOMAIN OsBlock(spec, ActiveOs).env
        /\ Tokens(spec.env[n]) \cap DOMAIN spec.env = {}}

\* C25: a value of the spec `env` is interpolated against the context and
\* the process environment, the layers merged before it: a token naming a
\* variable that only the OS-specific `env` defines does not see that value.
C25_LayeredInterpolation ==
    (Loaded /\ pc # "hang" /\ \A n \in DOMAIN ProcEnv(host) : TokenFree(ProcEnv(host)[n])) =>
        \A n \in OwnEnvNames :
            merged_env[n] = interpolate_string(spec.env[n], DictMerge(ctx, ProcEnv(host)))

\* the post_install item of an effect, as the document gives it
RawPostItemOf(e) == RawEntryOf(e).post_install[e.pit]

\* C26: a post_install item is dispatched as a run-item is: a string goes
\* to the shell with the step's shell kind, a mapping with an argv list to the
\* argv hook, and an argv that is no list or an item of any other shape
\* reaches no hook at all.
C26_PostInstallDispatch ==
    \A i \in 1..Len(effects) :
        LET e == effects[i]
        IN  e.site = "post_install" =>
                LET it == RawPostItemOf(e)
                IN  \/ it.kind = "str" /\ e.kind = "shell"
                    \/ it.kind = "argv" /\ it.argv_is_list /\ e.kind = "argv"

\* the context and the merged environment as the set-up part builds them
Ctx0 == BuildCtx(spec, overrides_list, ActiveOs)

Env0 == BuildEnv(spec, host, Ctx0, ActiveOs)

\* C27: once built, the context and the merged environment stay what they
\* were built as; the step in hand is the raw step interpolated against them,
\* whatever the steps before did; and a command is handed the merged
\* environment overridden by the `env` of its own step only.
C27_ImmutableContext ==
    [](Loaded =>
           LET c0 == Ctx0
               e0 == Env0
               sc0 == DictMerge(c0, e0)
           IN  /\ ctx = c0
               /\ merged_env = e0
               /\ pc \in {"step", "run", "clone", "post"} => step = deep_interpolate(steps[idx], sc0)
               /\ \A k \in {effects[i].idx : i \in {j \in 1..Len(effects) : IsCommand(effects[j])}} :
                      LET se == DictMerge(e0, InterpDict(steps[k].env, sc0))
                      IN  \A i \in 1..Len(effects) :
                              (IsCommand(effects[i]) /\ effects[i].idx = k) => effects[i].env = se)

\* a step defined V in its own `env` and its command saw it; the command of a
\* later step did not
C27_Witness ==
    \E i, j \in 1..Len(effects) :
        /\ effects[i].idx < effects[j].idx
        /\ IsCommand(effects[i]) /\ IsCommand(effects[j])
        /\ s_V \in DOMAIN steps[effects[i].idx].env
        /\ effects[i].env[s_V] = << "s" >>
        /\ s_V \notin DOMAIN effects[j].env

\* v without one layer of matching quotes, if it has one
StripOneLayer(v) ==
    IF Len(v) >= 2 /\ v[1] = v[Len(v)] /\ v[1] \in {"'", "\""}
    THEN SubSeq(v, 2, Len(v) - 1)
    ELSE v

\* the comparison of a guard with its value taken bare or out of one layer
\* of matching quotes
ComparesTrue(w) ==
    LET m == WhenMatch(w)
        val == StripOneLayer(StripChars(m.val, Space))
        actual == DictGet(step_ctx, m.k, << >>)
    IN  IF m.op = "==" THEN actual = val ELSE actual # val

\* C28: the value of a comparison is taken bare or out of exactly one layer
\* of matching quotes; unmatched, mixed and inner quote characters stay part
\* of the value: a step whose comparison is false on that value leaves no
\* trace, and in a run that completes a step whose comparison is true on it
\* has printed its banner.
C28_OneQuoteLayer ==
    \A k \in 1..Len(steps) :
        LET st == StepAt(k)
        IN  (Truthy(st.when) /\ WhenMatch(st.when[1]).ok) =>
                IF ComparesTrue(st.when[1])
                THEN (pc = "done" /\ outcome = "ok")
                         => \E i \in 1..Len(out) : out[i].kind = "banner" /\ out[i].idx = k
                ELSE /\ \A i \in 1..Len(out) : out[i].idx # k
                     /\ \A i \in 1..Len(effects) : effects[i].idx # k

\* the action blocks step k carries
BlocksOf(k) ==
    (IF IsSome(steps[k].write_file) THEN {"write_file"} ELSE {})
        \cup (IF IsSome(steps[k].clone_repos) THEN {"clone_repos"} ELSE {})
        \cup (IF IsSome(steps[k].run) THEN {"run"} ELSE {})

\* the first block step k carries, in the order write_file, clone_repos, run
FirstBlock(k) ==
    IF "write_file" \in BlocksOf(k) THEN "write_file"
    ELSE IF "clone_repos" \in BlocksOf(k) THEN "clone_repos"
    ELSE "run"

\* the block an effect or an output line belongs to
BlockOfSite(site) == IF site = "post_install" THEN "clone_repos" ELSE site

BlockOfLine(kind) ==
    IF kind \in {"dry_write"} THEN "write_file"
    ELSE IF kind \in {"dry_clone", "cloning", "skip_clone"} THEN "clone_repos"
    ELSE IF kind \in {"dry_run"} THEN "run"
    ELSE "any"

\* C29: a step acts through one block only, the first it carries in the
\* order write_file, clone_repos, run: every effect and every line of the step
\* belongs to that block; a step with none of the three has no effect and
\* prints its banner and 'No-op step', and no other step prints that line.
C29_OneActionKind ==
    [](/\ \A i \in 1..Len(effects) :
              LET k == effects[i].idx
              IN  BlocksOf(k) # {} /\ BlockOfSite(effects[i].site) = FirstBlock(k)
       /\ \A i \in 1..Len(out) :
              LET k == out[i].idx
              IN  k \in 1..Len(steps) =>
                      /\ BlockOfLine(out[i].kind) \in {"any", FirstBlock(k)}
                      /\ out[i].kind = "noop" <=> (BlocksOf(k) = {} /\ out[i].kind # "banner")
       /\ \A k \in 1..Len(steps) :
              (BlocksOf(k) = {} /\ idx > k /\ \E i \in 1..Len(out) : out[i].idx = k) =>
                  \E i \in 1..(Len(out) - 1) :
                      /\ out[i].idx = k /\ out[i].kind = "banner"
                      /\ out[i + 1].idx = k /\ out[i + 1].kind = "noop"
                      /\ \A j \in 1..Len(out) : out[j].idx = k => j \in {i, i + 1})

\* a step carrying all three blocks wrote its file and neither cloned nor ran
\* anything, and the next step ran
C29_Witness ==
    /\ Len(steps) = 2 /\ BlocksOf(1) = {"write_file", "clone_repos", "run"}
    /\ pc = "done" /\ outcome = "ok"
    /\ \E i \in 1..Len(effects) : effects[i].idx = 1 /\ effects[i].site = "write_file"
    /\ \A i \in 1..Len(effects) : effects[i].idx = 1 => effects[i].site = "write_file"
    /\ \E i \in 1..Len(effects) : effects[i].idx = 2

\* the guard of step k passes; the mode of the run plays no part in it
GuardOk(k) == ShouldRun([when |-> InterpOpt(steps[k].when, step_ctx)], step_ctx)

\* step k cannot be gone through in either mode: its interpolation does not
\* return, or its guard passes and its block lacks what is read before the
\* mode is looked at (the path of a write_file, the destination of a
\* clone_repos, a `run` that is a list)
StopsAt(k) ==
    \/ DeepHangs(steps[k], step_ctx)
    \/ /\ GuardOk(k)
       /\ LET st == StepAt(k)
          IN  \/ Dispatch(st) = "write_file" /\ ~IsSome(st.write_file[1].path)
              \/ /\ Dispatch(st) = "clone_repos"
                 /\ LET d == IF ActiveOs = s_windows THEN st.clone_repos[1].dest_windows
                             ELSE st.clone_repos[1].dest_unix
                    IN  ~Truthy(d) \/ Hangs(d[1], step_ctx)
              \/ Dispatch(st) = "run" /\ ~st.run[1].islist

\* the run cannot begin in either mode
StopsAtLoad ==
    \/ argv_spec = None
    \/ ~spec_exists
    \/ EnvHangs(spec, host, Ctx0, ActiveOs)

BannerIdx == [i \in 1..Len(Banners) |-> Banners[i].idx]

\* C30: in either mode the banners printed are those of steps whose guard
\* passes, in step order, and a run that completes has printed the banner of
\* every such step; a dry run stops short of completion only on a defect that
\* stops the real run too, and a real run that completes has met no such
\* defect: whenever the real run completes the dry run completes with the
\* banners of the same steps in the same order.
C30_DryRunFidelity ==
    [](/\ LET b == BannerIdx
          IN  /\ \A i \in 1..Len(b) : GuardOk(b[i])
              /\ \A i \in 1..(Len(b) - 1) : b[i] < b[i + 1]
              /\ (pc = "done" /\ outcome = "ok") =>
                     \A k \in 1..Len(steps) : (\E i \in 1..Len(b) : b[i] = k) \/ ~GuardOk(k)
       /\ (dry_run /\ pc \in {"done", "hang"} /\ outcome # "ok") =>
              IF Loaded THEN idx \in 1..Len(steps) /\ StopsAt(idx) ELSE StopsAtLoad
       /\ (~dry_run /\ pc = "done" /\ outcome = "ok") =>
              ~StopsAtLoad /\ \A k \in 1..Len(steps) : ~StopsAt(k))

\* a dry run of a spec whose real run can complete went through a
\* write_file, a clone_repos and a run step and past a step whose guard is
\* false, and printed the banners of the steps whose guard passes
C30_Witness ==
    /\ dry_run /\ pc = "done" /\ outcome = "ok"
    /\ \A k \in 1..Len(steps) : ~StopsAt(k)
    /\ \E k \in 1..Len(steps) : ~GuardOk(k)
    /\ Len(BannerIdx) >= 2
    /\ \A k \in 1..Len(steps) : GuardOk(k) <=> \E i \in 1..Len(BannerIdx) : BannerIdx[i] = k
    /\ \E i, j \in 1..Len(out) : out[i].kind = "dry_write" /\ out[j].kind = "dry_run"

====
